---------------------------- MODULE Spec2Model ----------------------------
(***************************************************************************)
(* A model of the Google Maps scraper: scrapeGoogleMaps (src/scraper.js)   *)
(* and extractBusinessDetails (src/unnamed/part_002, the module the        *)
(* scraper requires as ./utils/detailExtractor).                           *)
(*                                                                         *)
(* The program is one async function that calls another; both are          *)
(* modelled as step machines over a program counter (pc for                *)
(* scrapeGoogleMaps, epc for extractBusinessDetails).  Every awaited page  *)
(* operation is a step that either succeeds or throws; a throw moves the   *)
(* counter to the handler the enclosing try/catch of the source gives it.  *)
(*                                                                         *)
(* Texts are sequences of one-character strings, URLs are sequences of     *)
(* URL tokens, so that the regular expressions and the includes() tests of *)
(* the source are computed, not assumed.                                   *)
(*                                                                         *)
(* The phases of a scrape are checked under one specification each         *)
(* (SpecScroll, SpecList, SpecEnrich, Spec); each starts in the states     *)
(* the preceding phase can hand over.                                      *)
(***************************************************************************)
EXTENDS Integers, Sequences, FiniteSets, TLC

VARIABLES
    \* ---- scrapeGoogleMaps (src/scraper.js:194-594)
    pc,              \* position in scrapeGoogleMaps
    browser,         \* "none" | "open" | "closed"
    error,           \* the operation whose throw is propagating, or "none"
    identity,        \* the user agent and viewport setupFingerprintAvoidance chose
    \* the scroll loop (src/scraper.js:269-403)
    previousCount, currentCount, scrollAttempts, noChangeCount,
    observed,        \* history: the counts of the first checks (at most 3)
    \* summary extraction and deduplication (src/scraper.js:409-524)
    rendered,        \* the counts the result list may show when it is checked
    domElements,     \* the elements the card selectors match, in document order
    results,         \* the summaries page.evaluate returns
    uniqueResults,   \* results without repeated names
    \* the per-record loop (src/scraper.js:528-584)
    i,               \* the loop index (0-based)
    detailedResults, \* the list the scrape returns
    onBusinessExtracted,  \* whether the caller supplied the callback
    sunk,            \* history: the records the callback was called with
    \* ---- extractBusinessDetails (src/unnamed/part_002:423-964)
    epc,             \* position in extractBusinessDetails
    business,        \* its argument
    pageUrl,         \* page.url(): where the page is
    document,        \* what the document the page shows reports of itself
    currentUrl,      \* the URL saved for the way back
    navigatedAway,
    detailedInfo,    \* what the extracting evaluate returned
    enhancedBusiness,
    returned,        \* the value the call returned
    thrown,          \* history: the step of the call that threw last, or "none"
    \* ---- the server and its stores (src/unnamed/part_003:203-758)
    readyState,      \* mongoose.connection.readyState: 1 when MongoDB is connected
    businesses,      \* the documents of the MongoDB collection 'businesses'
    queries,         \* the documents of the MongoDB collection 'queries'
    csvFiles,        \* the content of csv_data/businesses_<querySlug>.csv, per slug
    csvQueries,      \* the rows of csv_data/queries.csv
    spc,             \* position in the GET /api/scrape handler
    query,           \* the query parameter of the request being handled
    savedCount, duplicateCount, errorCount,
    lastResult,      \* what the last call of saveSingleBusinessToDB returned
    response,        \* the last response the handler sent
    started,         \* history: the handled requests, per slug
    completed,       \* history: the requests answered with success, per slug
    \* ---- calls of the two storage layers on the same business
    saving,          \* the number of the last call, its arguments and its fault
    csvResult,       \* what the last call of saveSingleBusinessToCSV returned
    written,         \* history: the businesses saveSingleBusinessToCSV has saved
    calls            \* per concurrent request: its call of saveSingleBusinessToDB in flight

enrichVars == <<epc, business, pageUrl, document, currentUrl, navigatedAway, detailedInfo,
                enhancedBusiness, returned, thrown>>
loopVars == <<i, detailedResults, onBusinessExtracted, sunk>>
listVars == <<rendered, domElements, results, uniqueResults>>
scrollVars == <<previousCount, currentCount, scrollAttempts, noChangeCount, observed>>
mainVars == <<pc, browser, error, identity>>
storeVars == <<readyState, businesses, queries, csvFiles, csvQueries>>
handlerVars == <<spc, query, savedCount, duplicateCount, errorCount, lastResult, response,
                 started, completed>>
callVars == <<saving, csvResult, written, calls>>
sinkVars == <<businesses, lastResult, savedCount, duplicateCount, errorCount>>
sinkFrame ==
    <<readyState, queries, csvFiles, csvQueries, spc, query, response, started, completed,
      callVars>>
serverVars == <<storeVars, handlerVars, callVars>>
vars == <<mainVars, scrollVars, listVars, loopVars, enrichVars, serverVars>>

\* What each phase leaves alone.
scrollFrame == <<identity, listVars, loopVars, enrichVars, serverVars>>
listFrame == <<identity, scrollVars, loopVars, enrichVars, serverVars>>
loopFrame == <<browser, identity, scrollVars, listVars, serverVars>>
enrichFrame == <<mainVars, scrollVars, listVars, loopVars, serverVars>>

NULL == <<"null">>      \* JavaScript's null / undefined, where a text or URL may be absent
NONE == [none |-> TRUE] \* no record (yet)

(***************************************************************************)
(* Bounds of the model.                                                    *)
(***************************************************************************)
MaxCount == 6        \* rendered-result counts are drawn from 0..MaxCount
MaxElements == 3     \* at most this many elements match the card selectors (SpecList)
MaxRecords == 2      \* at most this many elements match them (Spec)

(***************************************************************************)
(* Texts and regular expressions.  A text is a sequence of glyphs: single  *)
(* characters where the source looks at characters (digits, separators,    *)
(* blanks), whole words elsewhere.  A regular expression is a sequence of  *)
(* items, each a character class with a repetition range (max < 0: no      *)
(* upper limit), matched greedily with backtracking as JavaScript does.    *)
(***************************************************************************)
Digit == {"0", "1", "2", "3", "4", "5", "6", "7", "8", "9"}
Blank == {" "}
\* [\d\s\-\(\)]
PhoneBody == Digit \cup Blank \cup {"-", "(", ")"}
\* [\d\s\+\-\(\)]
PhoneChar == PhoneBody \cup {"+"}

Item(cls, min, max) == [cls |-> cls, min |-> min, max |-> max]

\* The number of consecutive glyphs of s from pos on that lie in cls, at most cap.
RECURSIVE Run(_, _, _, _)
Run(s, pos, cls, cap) ==
    IF cap = 0 \/ pos > Len(s) THEN 0
    ELSE IF s[pos] \notin cls THEN 0
    ELSE 1 + Run(s, pos + 1, cls, cap - 1)

\* The position after the match of items that starts at pos, 0 if there is none.
RECURSIVE MatchAt(_, _, _)
RECURSIVE TryCount(_, _, _, _)
MatchAt(s, pos, items) ==
    IF items = << >> THEN pos
    ELSE LET it == Head(items)
             cap == IF it.max < 0 THEN Len(s) ELSE it.max
         IN  TryCount(s, pos, items, Run(s, pos, it.cls, cap))
TryCount(s, pos, items, k) ==
    IF k < Head(items).min THEN 0
    ELSE LET r == MatchAt(s, pos + k, Tail(items))
         IN  IF r # 0 THEN r ELSE TryCount(s, pos, items, k - 1)

\* <<start, end>> of the leftmost match at or after pos, << >> if there is none.
RECURSIVE SearchFrom(_, _, _)
SearchFrom(s, pos, items) ==
    IF pos > Len(s) THEN << >>
    ELSE LET e == MatchAt(s, pos, items)
         IN  IF e # 0 THEN <<pos, e>> ELSE SearchFrom(s, pos + 1, items)

\* String.prototype.match without the g flag: the first match, or null.
Match(s, items) ==
    LET m == SearchFrom(s, 1, items)
    IN  IF m = << >> THEN NULL ELSE SubSeq(s, m[1], m[2] - 1)

\* String.prototype.trim.
RECURSIVE TrimLeft(_)
TrimLeft(s) == IF s # << >> /\ Head(s) \in Blank THEN TrimLeft(Tail(s)) ELSE s
RECURSIVE TrimRight(_)
TrimRight(s) ==
    IF s # << >> /\ s[Len(s)] \in Blank THEN TrimRight(SubSeq(s, 1, Len(s) - 1)) ELSE s
Trim(s) == TrimRight(TrimLeft(s))

\* x?.trim(), truthiness of a text, and a || b.
TrimOpt(t) == IF t = NULL THEN NULL ELSE Trim(t)
Truthy(t) == t # NULL /\ t # << >>
Or(a, b) == IF Truthy(a) THEN a ELSE b

\* s.replace(/\D/g, ''): the digits of s.
DigitsOnly(s) == SelectSeq(s, LAMBDA g : g \in Digit)

\* s.replace(/,/g, '').
NoCommas(s) == SelectSeq(s, LAMBDA g : g # ",")

(***************************************************************************)
(* URLs are sequences of tokens (scheme, host labels, path segments), so   *)
(* that includes() is a search for a contiguous run of tokens.             *)
(***************************************************************************)
StartsWithHttp(u) == u # << >> /\ u[1] \in {"http://", "https://"}

Includes(u, pat) ==
    \E n \in 1..(Len(u) - Len(pat) + 1) : SubSeq(u, n, n + Len(pat) - 1) = pat

\* website.includes('google.com/maps') || website.includes('maps.google.com')
IsMapsLink(u) ==
    \/ Includes(u, <<"google.com", "/maps">>)
    \/ Includes(u, <<"maps.", "google.com">>)

\* The tokens that begin with a slash.
SlashToken == {"/maps", "/place/", "/search", "/data", "/url", "/"}
UrlToken ==
    SlashToken \cup {"http://", "https://", "www.", "maps.", "google.com", "acme.com",
                     "parent.com", "facebook.com", "?ref=", "Acme", "Bolt"}

\* placeUrl.match(/\/place\/([^\/]+)/): the run of slash-free tokens after /place/.
PlaceIdOf(u) ==
    LET at == {n \in 1..Len(u) : u[n] = "/place/" /\ Run(u, n + 1, UrlToken \ SlashToken, Len(u)) > 0}
    IN  IF u = NULL \/ at = {} THEN NULL
        ELSE LET n == CHOOSE j \in at : \A k \in at : j <= k
             IN  SubSeq(u, n + 1, n + Run(u, n + 1, UrlToken \ SlashToken, Len(u)))

(***************************************************************************)
(* Summary extraction, src/scraper.js:409-517 (inside page.evaluate).      *)
(* An element is what the selectors of lines 443-494 read from one card.   *)
(***************************************************************************)
\* `Business ${index + 1}` for the 0-based forEach index.
BusinessN(index) == <<"Business", " ", ToString(index + 1)>>

\* Lines 443-452.
ElementName(el, index) ==
    Or(TrimOpt(el.nameText),
       Or(TrimOpt(el.ariaLabel),
          Or(TrimOpt(el.textContent), BusinessN(index))))

\* Lines 455-461; parseFloat keeps the numeral the pattern matched.
ElementRating(el) ==
    Match(el.ratingText, <<Item(Digit, 1, -1), Item({"."}, 0, 1), Item(Digit, 0, -1)>>)

\* Lines 464-469.
ElementReviewCount(el) ==
    LET m == Match(el.reviewText, <<Item(Digit, 1, -1), Item(Digit \cup {","}, 0, -1)>>)
    IN  IF m = NULL THEN NULL ELSE NoCommas(m)

\* Lines 472-475.
ElementAddress(el) == Or(TrimOpt(el.addressText), NULL)

\* Lines 478-480: the first digit followed by at least one of [\d\s\-\(\)].
ElementPhone(el) ==
    IF el.phoneLabel = NULL THEN NULL
    ELSE Or(Match(el.phoneLabel, <<Item(Digit, 1, 1), Item(PhoneBody, 1, -1)>>), NULL)

\* Variant of the summary website without the Google Maps test.
ElementWebsiteUnfiltered(el) == Or(el.websiteHref, NULL)

\* Lines 483-490: the href, nulled when it is a Google Maps link.
ElementWebsite(el) ==
    LET website == Or(el.websiteHref, NULL)
    IN  IF website # NULL /\ IsMapsLink(website) THEN NULL ELSE website

\* Lines 493-496 and 508.
ElementPlaceUrl(el) ==
    LET placeUrl == Or(el.placeHref, NULL)
    IN  IF placeUrl = NULL THEN NULL
        ELSE IF StartsWithHttp(placeUrl) THEN placeUrl
        ELSE <<"https://", "www.", "google.com">> \o placeUrl

\* Variant of the extraction of one element without the name test of line 499.
ExtractElementUnnamed(el, index) ==
    << [name |-> ElementName(el, index),
        rating |-> ElementRating(el),
        reviewCount |-> ElementReviewCount(el),
        address |-> ElementAddress(el),
        phone |-> ElementPhone(el),
        website |-> ElementWebsite(el),
        placeId |-> PlaceIdOf(Or(el.placeHref, NULL)),
        placeUrl |-> ElementPlaceUrl(el)] >>

\* Lines 440-514 for one element: no summary, or one.
ExtractElement(el, index) ==
    LET name == ElementName(el, index)
    IN  IF Truthy(name) /\ name # BusinessN(index)
          THEN << [name |-> name,
                   rating |-> ElementRating(el),
                   reviewCount |-> ElementReviewCount(el),
                   address |-> ElementAddress(el),
                   phone |-> ElementPhone(el),
                   website |-> ElementWebsite(el),
                   placeId |-> PlaceIdOf(Or(el.placeHref, NULL)),
                   placeUrl |-> ElementPlaceUrl(el)] >>
          ELSE << >>

\* Lines 422-436: the elements of all selectors, the first of each identifier
\* (text content and href) kept.
Identifier(el) == <<el.textContent, el.href>>
BusinessElements(els) ==
    LET idx == {n \in 1..Len(els) :
                   \A j \in 1..(n - 1) : Identifier(els[j]) # Identifier(els[n])}
        RECURSIVE Pick(_)
        Pick(n) == IF n > Len(els) THEN << >>
                   ELSE (IF n \in idx THEN <<els[n]>> ELSE << >>) \o Pick(n + 1)
    IN  Pick(1)

\* Lines 440-516: businesses, in element order.
RECURSIVE ExtractFrom(_, _)
ExtractFrom(els, n) ==
    IF n > Len(els) THEN << >>
    ELSE ExtractElement(els[n], n - 1) \o ExtractFrom(els, n + 1)
ExtractAll(els) == ExtractFrom(BusinessElements(els), 1)

\* Variant of findIndex that finds the last record of the name.
FindLastIndex(self, name) ==
    LET hit == {k \in 1..Len(self) : self[k].name = name}
    IN  IF hit = {} THEN 0 ELSE CHOOSE k \in hit : \A m \in hit : k >= m

\* Lines 520-522: results.filter((b, index, self) => index === self.findIndex(...)).
FindIndex(self, name) ==
    LET hit == {k \in 1..Len(self) : self[k].name = name}
    IN  IF hit = {} THEN 0 ELSE CHOOSE k \in hit : \A m \in hit : k <= m
UniqueByName(self) ==
    LET RECURSIVE Keep(_)
        Keep(n) == IF n > Len(self) THEN << >>
                   ELSE (IF n = FindIndex(self, self[n].name) THEN <<self[n]>> ELSE << >>)
                        \o Keep(n + 1)
    IN  Keep(1)

\* The state of the extraction variables before extraction has run.
ListIdle ==
    /\ results = << >>
    /\ uniqueResults = << >>

\* Lines 409-517: the page.evaluate that returns the summaries.
ExtractSummaries ==
    /\ pc = "extract"
    /\ \/ /\ results' = ExtractAll(domElements)
          /\ pc' = "dedup"
          /\ UNCHANGED error
       \/ /\ pc' = "catch"
          /\ error' = "evaluate"
          /\ UNCHANGED results
    /\ UNCHANGED <<browser, rendered, domElements, uniqueResults, listFrame>>

\* Lines 519-528: the duplicate filter, then the per-record loop starts.
Deduplicate ==
    /\ pc = "dedup"
    /\ uniqueResults' = UniqueByName(results)
    /\ pc' = "loopHead"
    /\ UNCHANGED <<browser, error, rendered, domElements, results, listFrame>>

(***************************************************************************)
(* Detail extraction, src/unnamed/part_002:491-800 (inside page.evaluate). *)
(* A detail DOM is what the selectors of those lines read from the page:   *)
(*   panelName         text of the panel's heading, or null                *)
(*   phoneText         what lines 533-537 read from the Phone control      *)
(*                     (null: no control, or nothing to read)              *)
(*   hasMain           whether [role="main"] or .m6QErb exists             *)
(*   contacts          the .Io6YTe.fontBodyMedium elements: text, tel link *)
(*                     href, http link href, whether the context mentions  *)
(*                     a website                                           *)
(*   telLinks          further a[href^="tel:"] hrefs of the main panel     *)
(*   panelText         innerText of the main panel                         *)
(*   websiteHref       the href lines 645-646 read from the Website        *)
(*                     control, or null                                    *)
(*   links             further a[href^="http"] elements: href, whether in  *)
(*                     the main panel, whether labelled as the website     *)
(*   addressTexts      the text of the first element of each address       *)
(*                     selector that matches, in selector order            *)
(*   hoursText, categoryText   text of the hours and category elements     *)
(***************************************************************************)
\* digitsOnly.length >= 7 && digitsOnly.length <= 15
MinDigits == 7
MaxDigits == 15
ValidDigits(phone) ==
    Len(DigitsOnly(phone)) >= MinDigits /\ Len(DigitsOnly(phone)) <= MaxDigits

\* if (phoneText.startsWith('tel:')) phoneText = phoneText.replace('tel:', '').trim()
StripTel(t) == IF t # << >> /\ t[1] = "tel:" THEN Trim(Tail(t)) ELSE t

\* /[\d\s\+\-\(\)]{7,}/ (lines 543 and 572)
PhoneRun == <<Item(PhoneChar, MinDigits, -1)>>

\* Lines 526-548: the Phone control.  The match is taken as it is.
PhoneStrategy1(dom) ==
    IF ~Truthy(dom.phoneText) THEN NULL
    ELSE LET m == Match(StripTel(dom.phoneText), PhoneRun)
         IN  IF m = NULL THEN NULL ELSE Trim(m)

\* text.toLowerCase().includes('phone') || ...includes('call')
MentionsPhone(text) ==
    \E k \in 1..Len(text) : text[k] \in {"Phone", "phone", "Phone:", "Call", "call"}

\* Lines 558-583 for one contact element: its validated phone, or null.
ContactPhone(c) ==
    IF ~(MentionsPhone(c.text) \/ c.tel # NULL) THEN NULL
    ELSE LET phoneText == IF c.tel # NULL THEN c.tel ELSE c.text
             m == IF Truthy(phoneText) THEN Match(StripTel(phoneText), PhoneRun) ELSE NULL
         IN  IF m # NULL /\ ValidDigits(Trim(m)) THEN Trim(m) ELSE NULL

\* The first non-null value of f over the elements of a sequence, or null.
FirstOf(seq, f(_)) ==
    LET hit == {k \in 1..Len(seq) : f(seq[k]) # NULL}
    IN  IF hit = {} THEN NULL ELSE f(seq[CHOOSE k \in hit : \A m \in hit : k <= m])

\* Lines 550-586.
PhoneStrategy2(dom) ==
    IF dom.hasMain THEN FirstOf(dom.contacts, ContactPhone) ELSE NULL

\* a[href^="tel:"] inside the main panel: those of the contacts, then the others.
TelLinks(dom) ==
    SelectSeq([k \in 1..Len(dom.contacts) |-> dom.contacts[k].tel], LAMBDA h : h # NULL)
        \o dom.telLinks

\* Lines 596-603 for one tel link.
TelPhone(href) ==
    LET phone == Trim(Tail(href))
    IN  IF Len(phone) >= MinDigits /\ ValidDigits(phone) THEN phone ELSE NULL

\* Lines 588-607.
PhoneStrategy3(dom) ==
    IF dom.hasMain THEN FirstOf(TelLinks(dom), TelPhone) ELSE NULL

\* String.prototype.match with the g flag: all matches, left to right.
RECURSIVE AllMatches(_, _, _)
AllMatches(s, pos, items) ==
    LET m == SearchFrom(s, pos, items)
    IN  IF m = << >> THEN << >>
        ELSE <<SubSeq(s, m[1], m[2] - 1)>>
                 \o AllMatches(s, IF m[2] > m[1] THEN m[2] ELSE m[1] + 1, items)

\* Lines 616-619.
Separator == Blank \cup {"-"}
phonePatterns ==
    << <<Item({"+"}, 0, 1), Item(PhoneBody, 10, -1)>>,
       <<Item({"+"}, 0, 1), Item(Digit, 1, 4), Item(Separator, 0, 1), Item(Digit, 1, 4),
         Item(Separator, 0, 1), Item(Digit, 1, 4), Item(Separator, 0, 1), Item(Digit, 1, 9)>> >>

\* Lines 622-633 for one pattern: the first match with 7 to 15 digits.
PatternPhone(text, pattern) ==
    LET valid == SelectSeq(AllMatches(text, 1, pattern), ValidDigits)
    IN  IF valid = << >> THEN NULL ELSE Trim(Head(valid))

\* Lines 609-636.
PhoneStrategy4(dom) ==
    IF ~dom.hasMain THEN NULL
    ELSE IF PatternPhone(dom.panelText, phonePatterns[1]) # NULL
           THEN PatternPhone(dom.panelText, phonePatterns[1])
           ELSE PatternPhone(dom.panelText, phonePatterns[2])

\* Lines 526-636: each strategy runs only when the ones before gave nothing.
DetailPhone(dom) ==
    LET first == PhoneStrategy1(dom)
        later == Or(PhoneStrategy2(dom), Or(PhoneStrategy3(dom), PhoneStrategy4(dom)))
    IN  IF Truthy(first) THEN first
        ELSE IF later # NULL THEN later
        ELSE first

\* Lines 647-651.
WebsiteStrategy1(dom) ==
    LET href == dom.websiteHref
    IN  IF /\ Truthy(href)
           /\ StartsWithHttp(href)
           /\ ~Includes(href, <<"google.com", "/maps">>)
           /\ ~Includes(href, <<"maps.", "google.com">>)
           /\ ~Includes(href, <<"google.com", "/search">>)
          THEN href ELSE NULL

\* The includes() denylist of lines 674-680 and 704-710.
DeniedHref(href) ==
    \E d \in {"google.com", "youtube.com", "facebook.com", "instagram.com",
              "twitter.com", "linkedin.com"} : Includes(href, <<d>>)

\* a[href^="http"] of the document: the given links, then those of the contacts.
AllLinks(dom) ==
    dom.links \o
    SelectSeq([k \in 1..Len(dom.contacts) |->
                  [href |-> dom.contacts[k].http, inMain |-> dom.hasMain, marked |-> FALSE]],
              LAMBDA l : l.href # NULL)

\* Lines 666-687 for one link of the main section.
MarkedLink(l) ==
    IF l.inMain /\ StartsWithHttp(l.href) /\ ~DeniedHref(l.href) /\ l.marked
      THEN l.href ELSE NULL

\* Lines 656-690.
WebsiteStrategy2(dom) ==
    IF dom.hasMain THEN FirstOf(AllLinks(dom), MarkedLink) ELSE NULL

\* Lines 695-717 for one contact element.
ContactLink(c) ==
    IF c.http # NULL /\ StartsWithHttp(c.http) /\ ~DeniedHref(c.http) /\ c.context
      THEN c.http ELSE NULL

\* Lines 692-719.
WebsiteStrategy3(dom) == FirstOf(dom.contacts, ContactLink)

\* new URL(href).hostname: the tokens between the scheme and the path.
HostToken == {"www.", "maps.", "google.com", "acme.com", "parent.com", "facebook.com",
              "intranet"}
Hostname(href) == SubSeq(href, 2, 1 + Run(href, 2, HostToken, Len(href)))

\* excludedDomains of lines 724-728.
excludedDomains ==
    {"google.com", "maps.google.com", "youtube.com", "facebook.com", "instagram.com",
     "twitter.com", "linkedin.com", "pinterest.com", "tumblr.com", "reddit.com",
     "github.com", "stackoverflow.com"}
ExcludedHost(href) == \E d \in excludedDomains : Includes(Hostname(href), <<d>>)

\* /^https?:\/\/[a-zA-Z0-9.-]+\.[a-zA-Z]{2,}/: the host ends in a top-level domain.
HasTld(href) ==
    LET host == Hostname(href)
    IN  \E k \in 1..Len(host) :
            \/ host[k] \in HostToken \ {"www.", "maps.", "intranet"}
            \/ host[k] \in {"www.", "maps."} /\ k < Len(host)

\* Lines 730-751: the loop over all links.  new URL throws on an href with no
\* host, which ends the whole evaluate; THROWN stands for that.
THROWN == <<"thrown">>
RECURSIVE LastResort(_, _)
LastResort(links, k) ==
    IF k > Len(links) THEN NULL
    ELSE LET href == links[k].href
         IN  IF ~StartsWithHttp(href) THEN LastResort(links, k + 1)
             ELSE IF Hostname(href) = << >> THEN THROWN
             ELSE IF ExcludedHost(href) THEN LastResort(links, k + 1)
             ELSE IF links[k].inMain /\ HasTld(href) THEN href
             ELSE LastResort(links, k + 1)

\* Lines 721-752.
WebsiteStrategy4(dom) == LastResort(AllLinks(dom), 1)

\* Lines 754-760: the final validation.
FinalValidation(website) ==
    IF /\ Truthy(website)
       /\ \/ Includes(website, <<"google.com", "/maps">>)
          \/ Includes(website, <<"maps.", "google.com">>)
          \/ Includes(website, <<"google.com", "/search">>)
      THEN NULL ELSE website

\* Lines 638-760; THROWN when the last strategy throws.
DetailWebsite(dom) ==
    LET found == Or(WebsiteStrategy1(dom),
                    Or(WebsiteStrategy2(dom),
                       Or(WebsiteStrategy3(dom), WebsiteStrategy4(dom))))
    IN  IF found = THROWN THEN THROWN ELSE FinalValidation(found)

\* addressText.length: the characters of a text.
RECURSIVE CharLen(_)
CharLen(t) == IF t = << >> THEN 0 ELSE Len(Head(t)) + CharLen(Tail(t))

\* Lines 762-781: the first selector whose element's text is longer than 10.
LongEnough(t) == IF Truthy(t) /\ CharLen(t) > 10 THEN Trim(t) ELSE NULL
DetailAddress(dom) == FirstOf(dom.addressTexts, LongEnough)

\* Lines 783-790 and 792-797.
DetailHours(dom) == Or(TrimOpt(dom.hoursText), NULL)
DetailCategory(dom) == TrimOpt(dom.categoryText)

\* Lines 491-800: the details the evaluate returns, or THROWN.
ExtractDetails(dom) ==
    IF DetailWebsite(dom) = THROWN THEN [thrown |-> TRUE]
    ELSE [phone |-> DetailPhone(dom),
          website |-> DetailWebsite(dom),
          address |-> DetailAddress(dom),
          hours |-> DetailHours(dom),
          category |-> DetailCategory(dom),
          description |-> NULL,
          verifiedBusinessName |-> dom.panelName]

(***************************************************************************)
(* The merge, src/unnamed/part_002:810-871.                                *)
(***************************************************************************)
\* Lines 816-824: a website that exists and is no Google Maps link, else null.
NotMaps(website) == IF Truthy(website) /\ ~IsMapsLink(website) THEN website ELSE NULL

\* Variant of the website choice that prefers the summary's website.
FinalWebsitePreferOriginal(detailWebsite, originalWebsite) ==
    LET chosen == IF originalWebsite # NULL THEN originalWebsite
                  ELSE IF detailWebsite # NULL THEN detailWebsite
                  ELSE NULL
    IN  IF Truthy(chosen) /\ IsMapsLink(chosen) THEN NULL ELSE chosen

\* Lines 832-846.
FinalWebsite(detailWebsite, originalWebsite) ==
    LET chosen == IF detailWebsite # NULL THEN detailWebsite
                  ELSE IF originalWebsite # NULL THEN originalWebsite
                  ELSE NULL
    IN  IF Truthy(chosen) /\ IsMapsLink(chosen) THEN NULL ELSE chosen

\* Variant of the phone choice that prefers the summary's phone.
FinalPhonePreferOriginal(detailPhone, originalPhone) ==
    IF Truthy(originalPhone) THEN originalPhone
    ELSE IF Truthy(detailPhone) THEN detailPhone
    ELSE NULL

\* Lines 849-861.
FinalPhone(detailPhone, originalPhone) ==
    IF Truthy(detailPhone) THEN detailPhone
    ELSE IF Truthy(originalPhone) THEN originalPhone
    ELSE NULL

\* Variant of the merge that takes the address from the detail page alone.
EnhancedBusinessDetailAddress(b, info) ==
    [name |-> b.name, rating |-> b.rating, reviewCount |-> b.reviewCount,
     placeId |-> b.placeId, placeUrl |-> b.placeUrl,
     phone |-> FinalPhone(info.phone, b.phone),
     website |-> FinalWebsite(NotMaps(info.website), NotMaps(b.website)),
     address |-> info.address,
     hours |-> info.hours,
     category |-> info.category,
     description |-> info.description]

\* Lines 863-871: the summary's fields with six of them replaced or added.
EnhancedBusiness(b, info) ==
    [name |-> b.name, rating |-> b.rating, reviewCount |-> b.reviewCount,
     placeId |-> b.placeId, placeUrl |-> b.placeUrl,
     phone |-> FinalPhone(info.phone, b.phone),
     website |-> FinalWebsite(NotMaps(info.website), NotMaps(b.website)),
     address |-> Or(info.address, b.address),
     hours |-> info.hours,
     category |-> info.category,
     description |-> info.description]

(***************************************************************************)
(* The session identity, src/scraper.js:9-71 and 158-170.                  *)
(***************************************************************************)
\* getRandomUserAgent draws from sixteen strings; one of each platform the
\* navigator.platform override of lines 84-90 tells apart stands for them.
userAgents == {"Chrome/120 Windows", "Chrome/120 Macintosh", "Chrome/120 Linux"}

\* getRandomViewport draws from six sizes; the largest and the smallest
\* stand for them.
viewports == {[width |-> 1920, height |-> 1080], [width |-> 1280, height |-> 720]}

\* Lines 159-169.
timezones == {"America/New_York", "America/Los_Angeles", "America/Chicago",
              "Europe/London", "Asia/Karachi"}
offsets == [tz \in timezones |->
              CASE tz = "America/New_York" -> 300
                [] tz = "America/Los_Angeles" -> 480
                [] tz = "America/Chicago" -> 360
                [] tz = "Europe/London" -> 0
                [] tz = "Asia/Karachi" -> -300]

(***************************************************************************)
(* The scroll loop, src/scraper.js:269-403.                                *)
(***************************************************************************)
maxScrollAttempts == 100

\* src/scraper.js:269-273: the loop's counters as declared.
ScrollInit ==
    /\ previousCount = 0
    /\ currentCount = 0
    /\ scrollAttempts = 0
    /\ noChangeCount = 0
    /\ observed = << >>

Remember(c) == IF Len(observed) < 3 THEN Append(observed, c) ELSE observed

\* Variant of the loop condition that admits one iteration more.
ScrollGuardInclusive == scrollAttempts <= maxScrollAttempts

\* The loop condition of line 275.
ScrollGuard == scrollAttempts < maxScrollAttempts

\* Variant of the stability test that asks for a third equal count.
StableAfterThree(n) == n >= 3

\* The stability test of line 301 on the incremented noChangeCount.
Stable(n) == n >= 2

\* Variant of the check in which only a larger count resets noChangeCount.
ScrollCheckGrowthResets ==
    /\ pc = "scrollLoop"
    /\ ScrollGuard
    /\ \/ \E c \in rendered :
            /\ currentCount' = c
            /\ observed' = Remember(c)
            /\ IF c <= previousCount
                 THEN /\ noChangeCount' = IF c = previousCount THEN noChangeCount + 1
                                          ELSE noChangeCount
                      /\ IF c = previousCount /\ Stable(noChangeCount + 1)
                           THEN /\ pc' = "scrollDone"
                                /\ previousCount' = previousCount
                           ELSE /\ pc' = "scrollNudge"
                                /\ previousCount' = c
                 ELSE /\ noChangeCount' = 0
                      /\ previousCount' = c
                      /\ pc' = "scrollNudge"
            /\ UNCHANGED <<scrollAttempts, error, browser, scrollFrame>>
       \/ /\ pc' = "catch"
          /\ error' = "evaluate"
          /\ UNCHANGED <<scrollVars, browser, scrollFrame>>

\* Lines 275-309: the loop condition holds, the count is read (the maximum over
\* the selectors, any value the page may render) and compared with the previous
\* one; the second consecutive equal count breaks out of the loop.  The
\* evaluate of line 277 is in no inner try: its throw reaches the outer catch.
ScrollCheck ==
    /\ pc = "scrollLoop"
    /\ ScrollGuard
    /\ \/ \E c \in rendered :
            /\ currentCount' = c
            /\ observed' = Remember(c)
            /\ IF c = previousCount
                 THEN /\ noChangeCount' = noChangeCount + 1
                      /\ IF Stable(noChangeCount + 1)
                           THEN /\ pc' = "scrollDone"
                                /\ previousCount' = previousCount
                           ELSE /\ pc' = "scrollNudge"
                                /\ previousCount' = c
                 ELSE /\ noChangeCount' = 0
                      /\ previousCount' = c
                      /\ pc' = "scrollNudge"
            /\ UNCHANGED <<scrollAttempts, error, browser, scrollFrame>>
       \/ /\ pc' = "catch"
          /\ error' = "evaluate"
          /\ UNCHANGED <<scrollVars, browser, scrollFrame>>

\* Lines 311-400: the nudges.  The evaluate of line 312 and the wait of line
\* 399 are in no inner try; the keyboard, scrollIntoView, hover and loading
\* indicator steps swallow their errors.  The iteration ends by counting it.
ScrollNudge ==
    /\ pc = "scrollNudge"
    /\ \/ /\ scrollAttempts' = scrollAttempts + 1
          /\ pc' = "scrollLoop"
          /\ UNCHANGED <<previousCount, currentCount, noChangeCount, observed, error,
                         browser, scrollFrame>>
       \/ /\ pc' = "catch"
          /\ error' \in {"evaluate", "waitForTimeout"}
          /\ UNCHANGED <<scrollVars, browser, scrollFrame>>

\* Line 275 when the condition fails: the loop is left at the cap.
ScrollCap ==
    /\ pc = "scrollLoop"
    /\ ~ScrollGuard
    /\ pc' = "scrollDone"
    /\ UNCHANGED <<scrollVars, error, browser, scrollFrame>>

\* Lines 403-406: the log line and the final wait, then extraction starts.
ScrollFinish ==
    /\ pc = "scrollDone"
    /\ \/ /\ pc' = "extract"
          /\ UNCHANGED error
       \/ /\ pc' = "catch"
          /\ error' = "waitForTimeout"
    /\ UNCHANGED <<scrollVars, browser, scrollFrame>>

(***************************************************************************)
(* Inputs: the detail pages a place URL may show.                          *)
(***************************************************************************)
AcmeSite == <<"https://", "www.", "acme.com", "/">>
ParentSite == <<"https://", "parent.com", "/">>
MapsPlace == <<"https://", "www.", "google.com", "/maps", "/place/", "Acme">>
MapsHost == <<"https://", "maps.", "google.com", "/">>
GoogleSearch == <<"https://", "www.", "google.com", "/search">>
GoogleRedirect == <<"https://", "www.", "google.com", "/url">>
ViaMaps == <<"https://", "parent.com", "/", "?ref=", "maps.", "google.com">>
Facebook == <<"https://", "www.", "facebook.com", "/">>
NoHost == <<"http://">>

Phone7 == <<"5", "5", "5", "-", "2", "2", "2", "2">>
Phone6 == <<"1", "2", "-", "3", "4", "-", "5", "6">>
Phone16 == <<"1", "2", "3", "4", " ", "5", "6", "7", "8", " ", "9", "0", "1", "2", " ",
             "3", "4", "5", "6">>
TelPhone11 == <<"tel:", "+", "1", "5", "5", "5", "3", "3", "3", "3", "3", "3", "3">>

Contact(text, tel, http, context) ==
    [text |-> text, tel |-> tel, http |-> http, context |-> context]
Link(href, inMain, marked) == [href |-> href, inMain |-> inMain, marked |-> marked]

\* A detail page with the given contact controls and links; the rest as a
\* typical page carries it.
Dom(phoneText, contacts, telLinks, panelText, websiteHref, links) ==
    [panelName |-> <<"Acme", " ", "Ltd">>,
     phoneText |-> phoneText, hasMain |-> TRUE, contacts |-> contacts,
     telLinks |-> telLinks, panelText |-> panelText,
     websiteHref |-> websiteHref, links |-> links,
     addressTexts |-> << <<"Directions">>, <<"12", " ", "Main", " ", "Street", " ", "Lahore">> >>,
     hoursText |-> <<"Open", " ", "9", "-", "5">>,
     categoryText |-> <<" ", "Dentist">>]

\* A page that shows nothing the selectors know.
EmptyDom ==
    [panelName |-> NULL, phoneText |-> NULL, hasMain |-> FALSE, contacts |-> << >>,
     telLinks |-> << >>, panelText |-> << >>, websiteHref |-> NULL, links |-> << >>,
     addressTexts |-> << >>, hoursText |-> NULL, categoryText |-> NULL]

DetailDoms ==
    { EmptyDom,
      \* labelled controls
      Dom(<<"Phone:", " ">> \o Phone7, << >>, << >>, << >>, AcmeSite, << >>),
      Dom(<<"Phone:", " ">> \o Phone6 \o <<" ">>, << >>, << >>, << >>, MapsPlace, << >>),
      Dom(Phone16, << >>, << >>, << >>, GoogleSearch, <<Link(GoogleRedirect, TRUE, TRUE)>>),
      \* contact blocks
      Dom(NULL,
          <<Contact(<<"Call", " ">> \o Phone6, NULL, Facebook, TRUE),
            Contact(<<"x">>, TelPhone11, ParentSite, TRUE)>>,
          << >>, << >>, NULL, << >>),
      \* tel links and labelled links
      Dom(NULL, << >>, <<<<"tel:", "1", "2", "3">>, TelPhone11>>, << >>, NULL,
          <<Link(AcmeSite, FALSE, TRUE), Link(ParentSite, TRUE, TRUE)>>),
      \* free text and any remaining link
      Dom(NULL, << >>, << >>, <<"Open", " ", "9", "-", "5", " ">> \o Phone7 \o <<" ", "x">>,
          NULL, <<Link(Facebook, TRUE, FALSE), Link(ViaMaps, TRUE, FALSE)>>),
      Dom(NULL, << >>, << >>, Phone6, MapsHost,
          <<Link(<<"https://", "intranet", "/">>, TRUE, FALSE), Link(AcmeSite, TRUE, FALSE)>>),
      \* a link new URL() rejects
      Dom(<<"tel:">> \o Phone7, << >>, << >>, << >>, NULL, <<Link(NoHost, TRUE, FALSE)>>) }

(***************************************************************************)
(* extractBusinessDetails, src/unnamed/part_002:423-964, step by step.     *)
(***************************************************************************)
SearchUrl == <<"https://", "www.", "google.com", "/maps", "/search/", "query">>
ErrorUrl == <<"chrome-error://">>

\* The locals of a call that has not started.
EnrichIdle ==
    /\ epc = "idle"
    /\ business = NONE
    /\ currentUrl = NULL
    /\ navigatedAway = FALSE
    /\ detailedInfo = NONE
    /\ enhancedBusiness = NONE
    /\ returned = NONE
    /\ thrown = "none"

\* Variant of the handlers in which the recovery of lines 946-960 has no try
\* of its own: its throw leaves the call.
HandlerRecoveryUncaught(step) ==
    CASE step \in {"goto", "loadWait", "verify"} -> "navCatch"
      [] step = "waitSelector" -> "settle"
      [] step \in {"back", "backSettle"} -> "finish"
      [] step = "recover" -> "raised"
      [] OTHER -> "recover"

\* Variant of the handlers in which a failed goto is swallowed and the call
\* goes on to read the page.
HandlerGotoSwallowed(step) ==
    CASE step = "goto" -> "settle"
      [] step \in {"loadWait", "verify"} -> "navCatch"
      [] step = "waitSelector" -> "settle"
      [] step \in {"back", "backSettle"} -> "finish"
      [] step = "recover" -> "returnOriginal"
      [] OTHER -> "recover"

\* Where a throw of each step continues, from the try/catch blocks:
\*   the inner try of lines 434-467 returns the summary;
\*   the .catch of lines 477-484 swallows the error;
\*   the try of lines 901-919 logs and goes on to the return of line 940;
\*   the try of lines 946-960 ignores the error;
\*   everything else inside lines 424-941 reaches the catch of line 942.
Handler(step) ==
    CASE step \in {"goto", "loadWait", "verify"} -> "navCatch"
      [] step = "waitSelector" -> "settle"
      [] step \in {"back", "backSettle"} -> "finish"
      [] step = "recover" -> "returnOriginal"
      [] OTHER -> "recover"

\* A step throws: the call continues at the step's handler.
Throws(step) == epc' = Handler(step) /\ thrown' = step

\* The documents a navigation may load: the script registered with
\* evaluateOnNewDocument (src/scraper.js:76-182) runs in each and makes it
\* report the user agent and the viewport chosen at setup, and the offset of
\* the timezone the script draws when it runs.
NewDocuments ==
    {[userAgent |-> identity.userAgent,
      width |-> identity.viewport.width,
      height |-> identity.viewport.height,
      timezoneOffset |-> offsets[tz]] : tz \in timezones}

\* The documents the page may show after a navigation that left it at url:
\* a new one when the page moved, the one it showed when it did not.
DocumentsAfter(url) == IF url = pageUrl THEN {document} ELSE NewDocuments

\* Where a navigation that throws may leave the page: where it was, at its
\* target, or on the browser's error page.
AfterFailedNavigation(target) == {pageUrl, target, ErrorUrl}

\* Variant of the test of line 433 that lets every summary through.
AnyPlaceUrl(b) == TRUE

\* The test of line 433.
HasPlaceUrl(b) == Truthy(b.placeUrl)

\* Line 428, then the test of line 433 and, without placeUrl, lines 468-472.
ReadUrl ==
    /\ epc = "url"
    /\ \/ /\ currentUrl' = pageUrl
          /\ navigatedAway' = FALSE
          /\ IF HasPlaceUrl(business)
               THEN epc' = "goto" /\ UNCHANGED returned
               ELSE epc' = "returned" /\ returned' = business
          /\ UNCHANGED thrown
       \/ /\ Throws("url")
          /\ UNCHANGED <<currentUrl, navigatedAway, returned>>
    /\ UNCHANGED <<business, pageUrl, document, detailedInfo, enhancedBusiness, enrichFrame>>

\* Lines 436-440.
Goto ==
    /\ epc = "goto"
    /\ \/ /\ pageUrl' = business.placeUrl
          /\ document' \in NewDocuments
          /\ navigatedAway' = TRUE
          /\ epc' = "loadWait"
          /\ UNCHANGED thrown
       \/ /\ pageUrl' \in AfterFailedNavigation(business.placeUrl)
          /\ document' \in DocumentsAfter(pageUrl')
          /\ Throws("goto")
          /\ UNCHANGED navigatedAway
    /\ UNCHANGED <<business, currentUrl, detailedInfo, enhancedBusiness, returned, enrichFrame>>

\* Line 443.
LoadWait ==
    /\ epc = "loadWait"
    /\ \/ epc' = "verify" /\ UNCHANGED thrown
       \/ Throws("loadWait")
    /\ UNCHANGED <<business, pageUrl, document, currentUrl, navigatedAway, detailedInfo,
                   enhancedBusiness, returned, enrichFrame>>

\* Lines 446-462: the title check; a mismatch is only logged.
VerifyPage ==
    /\ epc = "verify"
    /\ \/ epc' = "waitSelector" /\ UNCHANGED thrown
       \/ Throws("verify")
    /\ UNCHANGED <<business, pageUrl, document, currentUrl, navigatedAway, detailedInfo,
                   enhancedBusiness, returned, enrichFrame>>

\* Lines 463-467: the inner catch returns the summary.
NavCatch ==
    /\ epc = "navCatch"
    /\ returned' = business
    /\ epc' = "returned"
    /\ UNCHANGED <<business, pageUrl, document, currentUrl, navigatedAway, detailedInfo,
                   enhancedBusiness, thrown, enrichFrame>>

\* Lines 475-484: whether the selector appears or the wait times out.
WaitSelector ==
    /\ epc = "waitSelector"
    /\ \/ epc' = "settle" /\ UNCHANGED thrown
       \/ Throws("waitSelector")
    /\ UNCHANGED <<business, pageUrl, document, currentUrl, navigatedAway, detailedInfo,
                   enhancedBusiness, returned, enrichFrame>>

\* Line 487.
Settle ==
    /\ epc = "settle"
    /\ \/ epc' = "evaluate" /\ UNCHANGED thrown
       \/ Throws("settle")
    /\ UNCHANGED <<business, pageUrl, document, currentUrl, navigatedAway, detailedInfo,
                   enhancedBusiness, returned, enrichFrame>>

\* Lines 491-897: the extracting evaluate on whatever the page shows, then the
\* merge (no await lies between them).  The evaluate throws when the page
\* fails or when its own code throws.
Evaluate ==
    /\ epc = "evaluate"
    /\ \/ \E dom \in DetailDoms :
            /\ ExtractDetails(dom) # [thrown |-> TRUE]
            /\ detailedInfo' = ExtractDetails(dom)
            /\ enhancedBusiness' = EnhancedBusiness(business, ExtractDetails(dom))
            /\ epc' = "back"
            /\ UNCHANGED thrown
       \/ /\ Throws("evaluate")
          /\ UNCHANGED <<detailedInfo, enhancedBusiness>>
    /\ UNCHANGED <<business, pageUrl, document, currentUrl, navigatedAway, returned, enrichFrame>>

\* Lines 900-906, or lines 920-938 when the call did not navigate: the panel
\* is closed with Escape, which moves the page nowhere, and a throw is logged.
\* navigatedAway is true and page.url() gave a non-empty string whenever the
\* code reaches this point.
BackGoto ==
    /\ epc = "back"
    /\ IF navigatedAway /\ Truthy(currentUrl)
         THEN \/ /\ pageUrl' = currentUrl
                 /\ document' \in NewDocuments
                 /\ epc' = "backSettle"
                 /\ UNCHANGED thrown
              \/ /\ pageUrl' \in AfterFailedNavigation(currentUrl)
                 /\ document' \in DocumentsAfter(pageUrl')
                 /\ Throws("back")
         ELSE /\ \/ epc' = "finish" /\ UNCHANGED thrown
                 \/ Throws("back")
              /\ UNCHANGED <<pageUrl, document>>
    /\ UNCHANGED <<business, currentUrl, navigatedAway, detailedInfo, enhancedBusiness,
                   returned, enrichFrame>>

\* Lines 907-916: the wait and the check that only logs.
BackSettle ==
    /\ epc = "backSettle"
    /\ \/ epc' = "finish" /\ UNCHANGED thrown
       \/ Throws("backSettle")
    /\ UNCHANGED <<business, pageUrl, document, currentUrl, navigatedAway, detailedInfo,
                   enhancedBusiness, returned, enrichFrame>>

\* Line 940.
Finish ==
    /\ epc = "finish"
    /\ returned' = enhancedBusiness
    /\ epc' = "returned"
    /\ UNCHANGED <<business, pageUrl, document, currentUrl, navigatedAway, detailedInfo,
                   enhancedBusiness, thrown, enrichFrame>>

\* Lines 942-960: off the search page goBack is tried, on it Escape is pressed.
\* goBack leaves the page on the history entry before, the one the call began on.
Recover ==
    /\ epc = "recover"
    /\ \/ /\ ~Includes(pageUrl, <<"/maps", "/search/">>)
          /\ pageUrl' = IF Truthy(currentUrl) THEN currentUrl ELSE pageUrl
          /\ document' \in DocumentsAfter(pageUrl')
          /\ epc' = "returnOriginal"
          /\ UNCHANGED thrown
       \/ /\ Includes(pageUrl, <<"/maps", "/search/">>)
          /\ epc' = "returnOriginal"
          /\ UNCHANGED <<pageUrl, document, thrown>>
       \/ /\ Throws("recover")
          /\ UNCHANGED <<pageUrl, document>>
    /\ UNCHANGED <<business, currentUrl, navigatedAway, detailedInfo, enhancedBusiness,
                   returned, enrichFrame>>

\* Line 962.
ReturnOriginal ==
    /\ epc = "returnOriginal"
    /\ returned' = business
    /\ epc' = "returned"
    /\ UNCHANGED <<business, pageUrl, document, currentUrl, navigatedAway, detailedInfo,
                   enhancedBusiness, thrown, enrichFrame>>

(***************************************************************************)
(* The per-record loop of scrapeGoogleMaps, src/scraper.js:528-584.        *)
(***************************************************************************)
LoopIdle ==
    /\ i = 0
    /\ detailedResults = << >>
    /\ sunk = << >>

\* Lines 530-538: the loop test and the call of extractBusinessDetails.
LoopHead ==
    /\ pc = "loopHead"
    /\ i < Len(uniqueResults)
    /\ business' = uniqueResults[i + 1]
    /\ epc' = "url"
    /\ pc' = "details"
    /\ UNCHANGED <<pageUrl, document, currentUrl, navigatedAway, detailedInfo, enhancedBusiness,
                   returned, thrown, error, loopVars, loopFrame>>

\* Lines 538-539: the call has returned and its record is appended; a call
\* that raised reaches the catch of line 564.
Details ==
    /\ pc = "details"
    /\ \/ /\ epc = "returned"
          /\ detailedResults' = Append(detailedResults, returned)
          /\ pc' = "callback"
       \/ /\ epc = "raised"
          /\ pc' = "recordCatch"
          /\ UNCHANGED detailedResults
    /\ epc' = "idle"
    /\ UNCHANGED <<business, pageUrl, document, currentUrl, navigatedAway, detailedInfo,
                   enhancedBusiness, returned, thrown, error, i, onBusinessExtracted, sunk,
                   loopFrame>>

\* Variant of the wait of line 548 outside the try of lines 536-578: its throw
\* reaches the outer catch.
WaitUncaught ==
    /\ pc = "wait"
    /\ \/ pc' = "verifyList" /\ UNCHANGED error
       \/ pc' = "catch" /\ error' = "waitForTimeout"
    /\ UNCHANGED <<loopVars, enrichVars, loopFrame>>

\* Line 548.
Wait ==
    /\ pc = "wait"
    /\ pc' \in {"verifyList", "recordCatch"}
    /\ UNCHANGED <<error, loopVars, enrichVars, loopFrame>>

\* Lines 551-562 and the i++ of line 530: the check of the results list
\* swallows its errors; the iteration is over and the call's locals are gone.
VerifyList ==
    /\ pc = "verifyList"
    /\ i' = i + 1
    /\ pc' = "loopHead"
    /\ business' = NONE
    /\ currentUrl' = NULL
    /\ navigatedAway' = FALSE
    /\ detailedInfo' = NONE
    /\ enhancedBusiness' = NONE
    /\ returned' = NONE
    /\ thrown' = "none"
    /\ UNCHANGED <<epc, pageUrl, document, error, detailedResults, onBusinessExtracted, sunk, loopFrame>>

\* Lines 564-572: the catch appends the summary.
RecordCatch ==
    /\ pc = "recordCatch"
    /\ detailedResults' = Append(detailedResults, business)
    /\ pc' = "catchCallback"
    /\ UNCHANGED <<error, i, onBusinessExtracted, sunk, enrichVars, loopFrame>>

\* Lines 530 and 581-584: the loop is over and the list is returned.
LoopExit ==
    /\ pc = "loopHead"
    /\ ~(i < Len(uniqueResults))
    /\ pc' = "finallyReturn"
    /\ UNCHANGED <<error, loopVars, enrichVars, loopFrame>>

\* Lines 589-593 on the way to the caller with the list.
FinallyReturn ==
    /\ pc = "finallyReturn"
    /\ browser' = IF browser = "open" THEN "closed" ELSE browser
    /\ pc' = "returned"
    /\ UNCHANGED <<error, identity, scrollVars, listVars, loopVars, enrichVars, serverVars>>

(***************************************************************************)
(* The end of scrapeGoogleMaps, src/scraper.js:586-593.                    *)
(***************************************************************************)
\* Variant of the outer catch that does not rethrow: the scrape goes on to
\* return its list.
OuterCatchSwallows ==
    /\ pc = "catch"
    /\ pc' = "finallyReturn"
    /\ UNCHANGED <<browser, error, scrollVars, scrollFrame>>

\* Lines 586-588: the outer catch logs and rethrows.
OuterCatch ==
    /\ pc = "catch"
    /\ pc' = "finallyThrow"
    /\ UNCHANGED <<browser, error, scrollVars, scrollFrame>>

\* Variant of the finally of lines 589-593 that leaves the browser as it is
\* on the way out with an exception.
FinallyThrowLeavesOpen ==
    /\ pc = "finallyThrow"
    /\ pc' = "rejected"
    /\ UNCHANGED <<browser, error, scrollVars, scrollFrame>>

\* Lines 589-593: finally closes the browser when one was launched; the
\* rejection then reaches the caller.
FinallyThrow ==
    /\ pc = "finallyThrow"
    /\ browser' = IF browser = "open" THEN "closed" ELSE browser
    /\ pc' = "rejected"
    /\ UNCHANGED <<error, scrollVars, scrollFrame>>

(***************************************************************************)
(* Launch and search navigation, src/scraper.js:194-264.  Nothing here is  *)
(* in an inner try but the waitForSelector of line 243 and the "Show more" *)
(* block of lines 251-264: every other throw reaches the outer catch.      *)
(***************************************************************************)
BlankUrl == <<"about:blank">>

\* What the launch steps leave alone.
launchFrame == <<scrollVars, listVars, loopVars, epc, business, currentUrl, navigatedAway,
                 detailedInfo, enhancedBusiness, returned, thrown, serverVars>>

\* Lines 200-210: puppeteer.launch.
Launch ==
    /\ pc = "launch"
    /\ \/ browser' = "open" /\ pc' = "newPage" /\ UNCHANGED error
       \/ pc' = "catch" /\ error' = "launch" /\ UNCHANGED browser
    /\ UNCHANGED <<identity, pageUrl, document, launchFrame>>

\* Line 211: browser.newPage.
NewPage ==
    /\ pc = "newPage"
    /\ \/ pc' = "setup" /\ UNCHANGED error
       \/ pc' = "catch" /\ error' = "newPage"
    /\ UNCHANGED <<browser, identity, pageUrl, document, launchFrame>>

\* Line 214 and lines 66-186: setupFingerprintAvoidance draws the user agent
\* and the viewport, sets them and registers the script for new documents;
\* each of its three awaits may throw.
SetupFingerprintAvoidance ==
    /\ pc = "setup"
    /\ \E ua \in userAgents, vp \in viewports :
          identity' = [userAgent |-> ua, viewport |-> vp]
    /\ \/ pc' = "headers" /\ UNCHANGED error
       \/ pc' = "catch" /\ error' = "setupFingerprintAvoidance"
    /\ UNCHANGED <<browser, pageUrl, document, launchFrame>>

\* Lines 217-229: page.setExtraHTTPHeaders.
SetHeaders ==
    /\ pc = "headers"
    /\ \/ pc' = "delay" /\ UNCHANGED error
       \/ pc' = "catch" /\ error' = "setExtraHTTPHeaders"
    /\ UNCHANGED <<browser, identity, pageUrl, document, launchFrame>>

\* Lines 236-237: the random delay before the navigation.
Delay ==
    /\ pc = "delay"
    /\ \/ pc' = "gotoSearch" /\ UNCHANGED error
       \/ pc' = "catch" /\ error' = "waitForTimeout"
    /\ UNCHANGED <<browser, identity, pageUrl, document, launchFrame>>

\* Lines 240-243: page.goto(searchUrl).
GotoSearch ==
    /\ pc = "gotoSearch"
    /\ \/ /\ pageUrl' = SearchUrl
          /\ document' \in NewDocuments
          /\ pc' = "waitResults"
          /\ UNCHANGED error
       \/ /\ pageUrl' \in AfterFailedNavigation(SearchUrl)
          /\ document' \in DocumentsAfter(pageUrl')
          /\ pc' = "catch"
          /\ error' = "goto"
    /\ UNCHANGED <<browser, identity, launchFrame>>

\* Lines 246-248: waitForSelector, whose rejection the .catch swallows.
WaitResults ==
    /\ pc = "waitResults"
    /\ pc' = "settleSearch"
    /\ UNCHANGED <<browser, error, identity, pageUrl, document, launchFrame>>

\* Line 251: the wait for dynamic content.
SettleSearch ==
    /\ pc = "settleSearch"
    /\ \/ pc' = "showMore" /\ UNCHANGED error
       \/ pc' = "catch" /\ error' = "waitForTimeout"
    /\ UNCHANGED <<browser, identity, pageUrl, document, launchFrame>>

\* Lines 254-266: the "Show more" button is clicked when there is one; the
\* block swallows its errors.  The scroll loop starts.
ShowMore ==
    /\ pc = "showMore"
    /\ pc' = "scrollLoop"
    /\ UNCHANGED <<browser, error, identity, pageUrl, document, launchFrame>>

(***************************************************************************)
(* Inputs: the cards a results page may show.                              *)
(***************************************************************************)
\* A card with the given name sources and own href; the other fields as a
\* typical card carries them.
Card(nameText, ariaLabel, textContent, href) ==
    [nameText |-> nameText, ariaLabel |-> ariaLabel, textContent |-> textContent,
     href |-> href,
     ratingText |-> <<"4", ".", "5", " ", "stars">>,
     reviewText |-> <<"1", ",", "2", "0", "4", " ", "reviews">>,
     addressText |-> <<"12", " ", "Main", " ", "Street">>,
     phoneLabel |-> NULL, websiteHref |-> NULL, placeHref |-> NULL]

PlaceAcme == <<"/maps", "/place/", "Acme", "/data">>

\* Cards that differ in where their name comes from.
NameCards ==
    { Card(<<"Acme">>, NULL, <<"Acme", " ", "4", ".", "5">>, NULL),
      Card(<<"acme">>, NULL, <<"acme">>, NULL),
      Card(NULL, <<" ", "Acme", " ">>, << >>, PlaceAcme),
      Card(NULL, NULL, <<"Bolt">>, NULL),
      Card(<<" ">>, NULL, <<" ", " ">>, NULL),
      Card(NULL, NULL, <<"Business", " ", "2">>, NULL) }

\* Cards that differ in phone, website and place link.
DetailCard(nameText, phoneLabel, websiteHref, placeHref) ==
    [Card(nameText, NULL, nameText, NULL) EXCEPT
        !.phoneLabel = phoneLabel, !.websiteHref = websiteHref, !.placeHref = placeHref]
DetailCards ==
    { DetailCard(n, p, w, l) :
        n \in {<<"Acme">>, <<" ">>},
        p \in {NULL, <<"Phone:", " ">> \o <<"5", "5", "5", "-", "1", "1", "1", "1">>,
               <<"Phone:", " ", "1", "2", " ", "3", "4">>},
        w \in {NULL, AcmeSite, MapsPlace, MapsHost, GoogleSearch},
        l \in {NULL, PlaceAcme, MapsPlace} }

\* Cards for the per-record loop: with and without a place link, with and
\* without a name.
LoopCards ==
    { DetailCard(<<"Acme">>, NULL, NULL, PlaceAcme),
      DetailCard(<<"Bolt">>, <<"Phone:", " ">> \o <<"5", "5", "5", "-", "1", "1", "1", "1">>,
                 AcmeSite, NULL),
      DetailCard(<<"Acme">>, NULL, AcmeSite, NULL),
      DetailCard(<<" ">>, NULL, NULL, PlaceAcme) }

\* The scroll counters once the loop has seen the count c stay unchanged.
ScrollSettled(c) ==
    /\ previousCount = c
    /\ currentCount = c
    /\ noChangeCount = 2
    /\ scrollAttempts = IF c = 0 THEN 1 ELSE 2
    /\ observed = IF c = 0 THEN <<0, 0>> ELSE <<c, c, c>>

\* The page once setup and the search navigation have succeeded: it shows a
\* document of the search view, under one of the identities and timezones.
OnSearchView ==
    /\ identity = [userAgent |-> "Chrome/120 Windows",
                   viewport |-> [width |-> 1920, height |-> 1080]]
    /\ pageUrl = SearchUrl
    /\ document = [userAgent |-> identity.userAgent,
                   width |-> identity.viewport.width,
                   height |-> identity.viewport.height,
                   timezoneOffset |-> offsets["Europe/London"]]

\* The lists of at most n elements of S.
SeqsUpTo(S, n) == UNION {[1..k -> S] : k \in 0..n}

(***************************************************************************)
(* The server: GET /api/scrape (src/unnamed/part_003:606-721) and the two  *)
(* stores behind it, MongoDB (src/utils/saveToDB.js) and the CSV files     *)
(* (src/unnamed/part_002:1-420).  A query is a text of single characters.  *)
(***************************************************************************)
MaxRequests == 2     \* at most this many requests are handled

LowerCase == {"d", "l"}
SlugChar == LowerCase \cup Digit      \* [a-z0-9]

\* String.prototype.toLowerCase.
ToLowerCase(s) ==
    [k \in 1..Len(s) |-> IF s[k] = "D" THEN "d" ELSE IF s[k] = "L" THEN "l" ELSE s[k]]

\* replace(/[^a-z0-9]+/g, '_'): every maximal run of other characters becomes
\* one underscore.
RECURSIVE Underscored(_)
Underscored(s) ==
    IF s = << >> THEN << >>
    ELSE IF Head(s) \in SlugChar THEN <<Head(s)>> \o Underscored(Tail(s))
    ELSE IF Len(s) > 1 /\ s[2] \notin SlugChar THEN Underscored(Tail(s))
    ELSE <<"_">> \o Underscored(Tail(s))

\* replace(/^_+|_+$/g, ''): the underscores at both ends are removed.
RECURSIVE Unframed(_)
Unframed(s) ==
    IF s = << >> THEN s
    ELSE IF Head(s) = "_" THEN Unframed(Tail(s))
    ELSE IF s[Len(s)] = "_" THEN Unframed(SubSeq(s, 1, Len(s) - 1))
    ELSE s

\* src/unnamed/part_003:620, src/utils/saveToDB.js:7-13, part_002:15-21.
createQuerySlug(q) == Unframed(Underscored(Trim(ToLowerCase(q))))

\* The queries of the requests: none, and three texts of two slugs.
Queries ==
    { << >>,
      <<"d", " ", "l">>,
      <<" ", "D", "-", "-", "L", "!">>,
      <<"l">> }
Slugs == {createQuerySlug(q) : q \in Queries \ {<< >>}}

\* business.hours || null, for a field the record may lack.
Field(b, f) == IF f \in DOMAIN b /\ Truthy(b[f]) THEN b[f] ELSE NULL

\* saveToDB.js:51-68: the document of a new business.
NewBusiness(b, q, querySlug) ==
    [name |-> b.name, rating |-> b.rating, reviewCount |-> b.reviewCount,
     address |-> b.address, phone |-> b.phone, website |-> b.website,
     placeId |-> b.placeId, placeUrl |-> b.placeUrl,
     query |-> q, querySlug |-> querySlug, email |-> NULL,
     hours |-> Field(b, "hours"), category |-> Field(b, "category"),
     description |-> Field(b, "description")]

\* Variant of the lookups without the one by name of lines 36-42.
ExistingBusinessByPlaceId(docs, b, querySlug) ==
    /\ Truthy(b.placeId)
    /\ \E k \in 1..Len(docs) : docs[k].placeId = b.placeId /\ docs[k].querySlug = querySlug

\* saveToDB.js:25-42: the two lookups; whether one of them found a document.
ExistingBusiness(docs, b, querySlug) ==
    \/ /\ Truthy(b.placeId)
       /\ \E k \in 1..Len(docs) : docs[k].placeId = b.placeId /\ docs[k].querySlug = querySlug
    \/ \E k \in 1..Len(docs) :
          /\ docs[k].name = b.name
          /\ docs[k].querySlug = querySlug
          /\ docs[k].placeId = Or(b.placeId, NULL)

Result(saved, duplicate, failed) == [saved |-> saved, duplicate |-> duplicate, error |-> failed]

\* What may go wrong in a call: nothing, a lookup that is rejected (lines 29
\* and 37), a save that is rejected (line 70), and a save that is rejected
\* with the duplicate-key error of code 11000.
Faults == {"none", "findOne", "save", "E11000"}

\* Variant of the call in which a rejected save has stored the document.
saveSingleBusinessToDBStoring(docs, b, q, querySlug, fault) ==
    IF readyState # 1 \/ fault = "findOne"
      THEN [result |-> Result(FALSE, FALSE, TRUE), docs |-> docs]
    ELSE IF ExistingBusiness(docs, b, querySlug)
      THEN [result |-> Result(FALSE, TRUE, FALSE), docs |-> docs]
    ELSE IF fault = "E11000"
      THEN [result |-> Result(FALSE, TRUE, FALSE),
            docs |-> Append(docs, NewBusiness(b, q, querySlug))]
    ELSE IF fault = "save"
      THEN [result |-> Result(FALSE, FALSE, TRUE),
            docs |-> Append(docs, NewBusiness(b, q, querySlug))]
    ELSE [result |-> Result(TRUE, FALSE, FALSE),
          docs |-> Append(docs, NewBusiness(b, q, querySlug))]

\* saveToDB.js:22-85: the result of the call and the collection after it.
\* The whole body is in the try; the catch of lines 74-84 answers a rejected
\* lookup or save, with duplicate for the error code 11000.  While mongoose
\* is not connected, Business.findOne (line 29 or 37) is rejected when its
\* buffering times out.
saveSingleBusinessToDB(docs, b, q, querySlug, fault) ==
    IF readyState # 1 \/ fault = "findOne"
      THEN [result |-> Result(FALSE, FALSE, TRUE), docs |-> docs]
    ELSE IF ExistingBusiness(docs, b, querySlug)
      THEN [result |-> Result(FALSE, TRUE, FALSE), docs |-> docs]
    ELSE IF fault = "E11000"
      THEN [result |-> Result(FALSE, TRUE, FALSE), docs |-> docs]
    ELSE IF fault = "save"
      THEN [result |-> Result(FALSE, FALSE, TRUE), docs |-> docs]
    ELSE [result |-> Result(TRUE, FALSE, FALSE),
          docs |-> Append(docs, NewBusiness(b, q, querySlug))]

\* Business.countDocuments({ querySlug }), part_003:673.
countDocuments(docs, querySlug) ==
    Cardinality({k \in 1..Len(docs) : docs[k].querySlug = querySlug})

\* Whether a query record of the slug is among the records.
HasRecord(records, querySlug) == \E k \in 1..Len(records) : records[k].querySlug = querySlug

\* part_003:625-639: the query record is created with scrapedCount 1, or its
\* scrapedCount is incremented.
TouchQueryRecord(records, q, querySlug) ==
    IF ~HasRecord(records, querySlug)
      THEN Append(records, [query |-> q, querySlug |-> querySlug,
                            totalBusinesses |-> 0, scrapedCount |-> 1])
      ELSE [k \in 1..Len(records) |->
              IF records[k].querySlug = querySlug
                THEN [records[k] EXCEPT !.scrapedCount = @ + 1]
                ELSE records[k]]

\* part_003:674-678: totalBusinesses of the query record is set.
SetTotal(records, querySlug, total) ==
    [k \in 1..Len(records) |->
       IF records[k].querySlug = querySlug
         THEN [records[k] EXCEPT !.totalBusinesses = total]
         ELSE records[k]]

(***************************************************************************)
(* CSV files, src/unnamed/part_002:26-226.  The content of a file is a     *)
(* text in which the comma, the double quote and the line break are        *)
(* glyphs of their own; a file that does not exist has no content.         *)
(***************************************************************************)
Comma == ","
Quote == "\""
LineBreak == "\n"
Whitespace == Blank \cup {LineBreak}

\* String.prototype.trim on a text that may hold line breaks.
RECURSIVE TrimAll(_)
TrimAll(s) ==
    IF s = << >> THEN s
    ELSE IF Head(s) \in Whitespace THEN TrimAll(Tail(s))
    ELSE IF s[Len(s)] \in Whitespace THEN TrimAll(SubSeq(s, 1, Len(s) - 1))
    ELSE s

\* String.prototype.split on one separator glyph.
RECURSIVE Split(_, _)
Split(s, sep) ==
    LET at == {n \in 1..Len(s) : s[n] = sep}
    IN  IF at = {} THEN <<s>>
        ELSE LET n == CHOOSE j \in at : \A k \in at : j <= k
             IN  <<SubSeq(s, 1, n - 1)>> \o Split(SubSeq(s, n + 1, Len(s)), sep)

\* Array.prototype.join.
RECURSIVE Join(_, _)
Join(values, sep) ==
    IF values = << >> THEN << >>
    ELSE IF Len(values) = 1 THEN values[1]
    ELSE values[1] \o <<sep>> \o Join(Tail(values), sep)

\* part_002:110-130: every quote toggles inQuotes and is dropped, a comma
\* outside quotes ends the value, and each value is trimmed.
RECURSIVE parseCSVLine(_, _, _, _)
parseCSVLine(line, pos, current, inQuotes) ==
    IF pos > Len(line) THEN <<Trim(current)>>
    ELSE IF line[pos] = Quote THEN parseCSVLine(line, pos + 1, current, ~inQuotes)
    ELSE IF line[pos] = Comma /\ ~inQuotes
      THEN <<Trim(current)>> \o parseCSVLine(line, pos + 1, << >>, inQuotes)
    ELSE parseCSVLine(line, pos + 1, Append(current, line[pos]), inQuotes)

\* replace(/"/g, '""').
RECURSIVE DoubleQuotes(_)
DoubleQuotes(s) ==
    IF s = << >> THEN s
    ELSE IF Head(s) = Quote THEN <<Quote, Quote>> \o DoubleQuotes(Tail(s))
    ELSE <<Head(s)>> \o DoubleQuotes(Tail(s))

\* part_002:135-144.
escapeCSVValue(value) ==
    IF value = NULL THEN << >>
    ELSE IF \E n \in 1..Len(value) : value[n] \in {Comma, Quote, LineBreak}
      THEN <<Quote>> \o DoubleQuotes(value) \o <<Quote>>
    ELSE value

\* part_002:151-155.
headers ==
    <<"name", "rating", "reviewCount", "address", "phone", "website", "placeId", "placeUrl",
      "query", "querySlug", "email", "emailExtractedAt", "hours", "category", "description",
      "scrapedAt">>

ScrapedAt == <<"2026-01-01T00:00:00.000Z">>

\* part_002:184-201: business[header] || '' for the columns of the business,
\* the query and the slug, and the time of the call.
businessData(b, q, slug) ==
    [h \in {headers[n] : n \in 1..Len(headers)} |->
        IF h = "query" THEN Or(q, << >>)
        ELSE IF h = "querySlug" THEN Or(slug, << >>)
        ELSE IF h = "scrapedAt" THEN ScrapedAt
        ELSE IF Field(b, h) = NULL THEN << >> ELSE b[h]]

\* part_002:215-216: the row of the business and its line break.
Row(data) ==
    Join([n \in 1..Len(headers) |-> escapeCSVValue(data[headers[n]])], Comma) \o <<LineBreak>>

\* part_002:61-73: the business of a line of as many values as there are
\* headers; an empty value is read as null, as is the value 'null', which is
\* the text NULL stands for.  (The numbers of rating and reviewCount and the
\* date are kept as their texts.)
RowBusiness(names, values) ==
    [h \in {names[n] : n \in 1..Len(names)} |->
        LET n == CHOOSE k \in 1..Len(names) : names[k] = h
        IN  IF values[n] = << >> THEN NULL ELSE values[n]]

\* part_002:40-83 on the content of the file: no business without a file or
\* with a header only; else one per line that has as many values as headers.
BusinessesOf(content) ==
    LET lines == Split(TrimAll(content), LineBreak)
        names == [n \in 1..Len(Split(lines[1], Comma)) |-> Trim(Split(lines[1], Comma)[n])[1]]
        rows == SelectSeq(Tail(lines),
                          LAMBDA l : Len(parseCSVLine(l, 1, << >>, FALSE)) = Len(names))
    IN  IF content = << >> \/ Len(lines) <= 1 THEN << >>
        ELSE [n \in 1..Len(rows) |-> RowBusiness(names, parseCSVLine(rows[n], 1, << >>, FALSE))]

\* part_002:204-212: the line of the headers, written when there is no file.
HeaderLine == Join([n \in 1..Len(headers) |-> <<headers[n]>>], Comma) \o <<LineBreak>>

\* Variant of the lookups of the CSV layer that goes by the name and the slug
\* alone.
ExistingBusinessCSVByName(rows, b, slug) ==
    \E k \in 1..Len(rows) : rows[k].name = b.name /\ rows[k].querySlug = slug

\* part_002:160-176: the two lookups among the businesses read from the file.
ExistingBusinessCSV(rows, b, slug) ==
    \/ /\ Truthy(b.placeId)
       /\ \E k \in 1..Len(rows) : rows[k].placeId = b.placeId /\ rows[k].querySlug = slug
    \/ \E k \in 1..Len(rows) :
          /\ rows[k].name = b.name
          /\ rows[k].querySlug = slug
          /\ \/ rows[k].placeId = b.placeId
             \/ ~Truthy(rows[k].placeId) /\ ~Truthy(b.placeId)

\* part_002:149-226: the result of the call and the content of the file
\* after it.
saveSingleBusinessToCSV(content, b, q, slug) ==
    IF ExistingBusinessCSV(BusinessesOf(content), b, slug)
      THEN [result |-> Result(FALSE, TRUE, FALSE), content |-> content]
      ELSE [result |-> Result(TRUE, FALSE, FALSE),
            content |-> (IF content = << >> THEN HeaderLine ELSE content)
                           \o Row(businessData(b, q, slug))]

\* part_002:40-83: the businesses of the file of the slug.
readBusinessesFromCSV(slug) == BusinessesOf(csvFiles[slug])

\* part_002:275-317: the rows of queries.csv; parseCSVLine trims every value.
readQueriesFromCSV(rows) == [k \in 1..Len(rows) |-> [rows[k] EXCEPT !.query = Trim(@)]]

\* part_002:322-373: the record is created with scrapedCount 1 or its
\* scrapedCount is incremented, its total is set, and all rows are written.
updateQueryRecordCSV(rows, q, querySlug) ==
    SetTotal(TouchQueryRecord(readQueriesFromCSV(rows), q, querySlug), querySlug,
             Len(readBusinessesFromCSV(querySlug)))

\* The scrapedCount of the query record of the slug, 0 when there is none.
ScrapedCount(records, querySlug) ==
    IF HasRecord(records, querySlug)
      THEN (CHOOSE r \in {records[k] : k \in 1..Len(records)} : r.querySlug = querySlug).scrapedCount
      ELSE 0

\* The storage the handler uses, part_003:624, 672 and 704.
storage == IF readyState = 1 THEN "MongoDB" ELSE "CSV"
querySlug == createQuerySlug(query)
QueryRecords == IF readyState = 1 THEN queries ELSE csvQueries

\* What the handler steps leave alone.
serverFrame == <<mainVars, scrollVars, listVars, i, onBusinessExtracted, enrichVars, callVars>>

\* No call of the storage layers yet.
NoCall == [n |-> 0, business |-> NONE, query |-> NULL, querySlug |-> NULL, fault |-> "none"]

\* The requests that may run at the same time, and a request whose callback
\* is not in a call of saveSingleBusinessToDB.
Requests == {"first", "second"}
NoSave == [at |-> "idle", business |-> NONE, n |-> 0, result |-> NONE]

\* The stores before the first request, and the handler between requests.
StoreEmpty ==
    /\ businesses = << >>
    /\ queries = << >>
    /\ csvFiles = [s \in Slugs |-> << >>]
    /\ csvQueries = << >>
HandlerIdle ==
    /\ spc = "idle"
    /\ query = NULL
    /\ savedCount = 0
    /\ duplicateCount = 0
    /\ errorCount = 0
    /\ lastResult = NONE
    /\ response = NONE
    /\ started = [s \in Slugs |-> 0]
    /\ completed = [s \in Slugs |-> 0]
    /\ saving = NoCall
    /\ csvResult = NONE
    /\ written = << >>
    /\ calls = [p \in Requests |-> NoSave]
ServerIdle == readyState = 0 /\ StoreEmpty /\ HandlerIdle

Handled == Cardinality({<<s, n>> \in Slugs \X (1..MaxRequests) : n <= started[s]})

\* Variant of the callback of the request that does not count a call whose
\* save failed.
SinkUncounted(b, fault) ==
    LET out == saveSingleBusinessToDB(businesses, b, query, querySlug, fault)
    IN  /\ businesses' = out.docs
        /\ lastResult' = out.result
        /\ savedCount' = IF out.result.saved THEN savedCount + 1 ELSE savedCount
        /\ duplicateCount' = IF ~out.result.saved /\ out.result.duplicate
                               THEN duplicateCount + 1 ELSE duplicateCount
        /\ UNCHANGED errorCount

\* Lines 651-665: the callback of the request hands the record to
\* saveSingleBusinessToDB, whatever the storage in use, and counts the result
\* in one of the three counters; it catches what it raises.
Sink(b, fault) ==
    LET out == saveSingleBusinessToDB(businesses, b, query, querySlug, fault)
    IN  /\ businesses' = out.docs
        /\ lastResult' = out.result
        /\ savedCount' = IF out.result.saved THEN savedCount + 1 ELSE savedCount
        /\ duplicateCount' = IF ~out.result.saved /\ out.result.duplicate
                               THEN duplicateCount + 1 ELSE duplicateCount
        /\ errorCount' = IF ~out.result.saved /\ ~out.result.duplicate
                           THEN errorCount + 1 ELSE errorCount

(***************************************************************************)
(* The calls of the callback in the loop of scrapeGoogleMaps,              *)
(* src/scraper.js:542-544 and 575-578.                                     *)
(***************************************************************************)
\* Variant of the call of lines 542-544 that goes on without calling the
\* callback.
CallbackSkipped ==
    /\ pc = "callback"
    /\ pc' = "wait"
    /\ UNCHANGED <<error, i, detailedResults, onBusinessExtracted, sunk, enrichVars, loopFrame>>

\* Lines 542-544: the callback, when there is one, returns or raises; the
\* callback of GET /api/scrape saves the record, counts the result and
\* returns.
Callback ==
    /\ pc = "callback"
    /\ IF onBusinessExtracted
         THEN /\ sunk' = Append(sunk, returned)
              /\ IF spc = "scraping"
                   THEN /\ pc' = "wait"
                        /\ \E fault \in Faults : Sink(returned, fault)
                   ELSE /\ pc' \in {"wait", "recordCatch"}
                        /\ UNCHANGED sinkVars
         ELSE /\ pc' = "wait"
              /\ UNCHANGED <<sunk, sinkVars>>
    /\ UNCHANGED <<error, i, detailedResults, onBusinessExtracted, enrichVars, browser,
                   identity, scrollVars, listVars, sinkFrame>>

\* Lines 575-578 and the i++ of line 530: the callback is called with the
\* summary; when it raises here, nothing catches it before the outer catch.
\* The callback of GET /api/scrape does not raise.
CatchCallback ==
    /\ pc = "catchCallback"
    /\ \/ /\ onBusinessExtracted
          /\ sunk' = Append(sunk, business)
          /\ IF spc = "scraping"
               THEN \E fault \in Faults : Sink(business, fault)
               ELSE UNCHANGED sinkVars
          /\ \/ /\ spc # "scraping"
                /\ pc' = "catch"
                /\ error' = "onBusinessExtracted"
                /\ UNCHANGED <<i, business, currentUrl, navigatedAway, detailedInfo,
                               enhancedBusiness, returned, thrown>>
             \/ /\ pc' = "loopHead"
                /\ i' = i + 1
                /\ business' = NONE
                /\ currentUrl' = NULL
                /\ navigatedAway' = FALSE
                /\ detailedInfo' = NONE
                /\ enhancedBusiness' = NONE
                /\ returned' = NONE
                /\ thrown' = "none"
                /\ UNCHANGED error
       \/ /\ ~onBusinessExtracted
          /\ pc' = "loopHead"
          /\ i' = i + 1
          /\ business' = NONE
          /\ currentUrl' = NULL
          /\ navigatedAway' = FALSE
          /\ detailedInfo' = NONE
          /\ enhancedBusiness' = NONE
          /\ returned' = NONE
          /\ thrown' = "none"
          /\ UNCHANGED <<error, sunk, sinkVars>>
    /\ UNCHANGED <<epc, pageUrl, document, detailedResults, onBusinessExtracted, browser,
                   identity, scrollVars, listVars, sinkFrame>>

\* Lines 608-615: a request without a query is answered with status 400.
BadRequest ==
    /\ spc = "idle"
    /\ response' = [status |-> 400]
    /\ UNCHANGED <<storeVars, spc, query, savedCount, duplicateCount, errorCount, lastResult,
                   started, completed, detailedResults, sunk, serverFrame>>

\* Lines 617-648: the query record is created or updated in the storage in
\* use, the counters are cleared and scrapeGoogleMaps is called.
ScrapeRequest ==
    /\ spc = "idle"
    /\ Handled < MaxRequests
    /\ \E q \in Queries \ {<< >>} :
         /\ query' = q
         /\ IF readyState = 1
              THEN /\ queries' = TouchQueryRecord(queries, q, createQuerySlug(q))
                   /\ UNCHANGED csvQueries
              ELSE /\ csvQueries' = updateQueryRecordCSV(csvQueries, q, createQuerySlug(q))
                   /\ UNCHANGED queries
         /\ started' = [started EXCEPT ![createQuerySlug(q)] = @ + 1]
    /\ savedCount' = 0
    /\ duplicateCount' = 0
    /\ errorCount' = 0
    /\ detailedResults' = << >>
    /\ sunk' = << >>
    /\ spc' = "scraping"
    /\ UNCHANGED <<readyState, businesses, csvFiles, lastResult, response, completed,
                   serverFrame>>

PlaceBolt == <<"/maps", "/place/", "Bolt", "/data">>

\* The records scrapeGoogleMaps may hand to the callback: summaries of two
\* names, without a place link or with one of two.
ScrapedRecords ==
    { ExtractElement(DetailCard(n, NULL, NULL, l), 0)[1] :
        n \in {<<"Acme">>, <<"Bolt">>}, l \in {NULL, PlaceAcme} }
       \cup {ExtractElement(DetailCard(<<"Bolt">>, NULL, NULL, PlaceBolt), 0)[1]}

\* The callback called at src/scraper.js:542-544 or 575-578 with the next
\* record of the scrape.  The names of the summaries are distinct
\* (src/scraper.js:519-524); a record may be followed by the summary of the
\* same name (line 572).
OnBusinessExtracted ==
    /\ spc = "scraping"
    /\ Len(detailedResults) < MaxRecords
    /\ \E b \in ScrapedRecords :
         /\ \A k \in 1..(Len(detailedResults) - 1) : detailedResults[k].name # b.name
         /\ Sink(b, "none")
         /\ sunk' = Append(sunk, b)
         /\ detailedResults' = Append(detailedResults, b)
    /\ UNCHANGED <<readyState, queries, csvFiles, csvQueries, spc, query, response, started,
                   completed, serverFrame>>

\* Lines 668-712: scrapeGoogleMaps has returned its list; the total of the
\* query is counted, the query record is updated and the response is sent.
ScrapeResolved ==
    /\ spc = "scraping"
    /\ LET totalForQuery == IF readyState = 1
                              THEN countDocuments(businesses, querySlug)
                              ELSE Len(readBusinessesFromCSV(querySlug))
       IN  /\ IF readyState = 1
                THEN /\ queries' = SetTotal(queries, querySlug, totalForQuery)
                     /\ UNCHANGED csvQueries
                ELSE /\ csvQueries' = updateQueryRecordCSV(csvQueries, query, querySlug)
                     /\ UNCHANGED queries
           /\ response' = [status |-> 200, query |-> query, results |-> detailedResults,
                           storage |-> storage, saved |-> savedCount,
                           duplicates |-> duplicateCount, errors |-> errorCount,
                           totalInQuery |-> totalForQuery]
    /\ completed' = [completed EXCEPT ![querySlug] = @ + 1]
    /\ spc' = "idle"
    /\ UNCHANGED <<readyState, businesses, csvFiles, query, savedCount, duplicateCount,
                   errorCount, lastResult, started, detailedResults, sunk, serverFrame>>

\* Lines 714-720: scrapeGoogleMaps has rejected, which it does before its
\* first record (src/scraper.js:586-589); the request is answered with
\* status 500.
ScrapeRejected ==
    /\ spc = "scraping"
    /\ detailedResults = << >>
    /\ response' = [status |-> 500]
    /\ spc' = "idle"
    /\ UNCHANGED <<storeVars, query, savedCount, duplicateCount, errorCount, lastResult,
                   started, completed, detailedResults, sunk, serverFrame>>

(***************************************************************************)
(* SpecScroll: the scroll loop from its first iteration to the start of    *)
(* extraction, or to the rejection a throwing page operation causes.       *)
(***************************************************************************)
InitScroll ==
    /\ pc = "scrollLoop"
    /\ browser = "open"
    /\ error = "none"
    /\ ScrollInit
    /\ rendered = 0..MaxCount
    /\ domElements = << >>
    /\ ListIdle
    /\ LoopIdle
    /\ onBusinessExtracted = FALSE
    /\ OnSearchView
    /\ EnrichIdle
    /\ ServerIdle

NextScroll ==
    \/ ScrollCheck
    \/ ScrollNudge
    \/ ScrollCap
    \/ ScrollFinish
    \/ OuterCatch
    \/ FinallyThrow

SpecScroll == InitScroll /\ [][NextScroll]_vars

(***************************************************************************)
(* SpecList: summary extraction and deduplication of the elements a        *)
(* results page shows once scrolling has ended.                            *)
(***************************************************************************)
InitList ==
    /\ pc = "extract"
    /\ browser = "open"
    /\ error = "none"
    /\ domElements \in SeqsUpTo(NameCards, MaxElements)
    /\ rendered = {Len(domElements)}
    /\ ScrollSettled(Len(domElements))
    /\ ListIdle
    /\ LoopIdle
    /\ onBusinessExtracted = FALSE
    /\ OnSearchView
    /\ EnrichIdle
    /\ ServerIdle

NextList ==
    \/ ExtractSummaries
    \/ Deduplicate
    \/ OuterCatch
    \/ FinallyThrow

SpecList == InitList /\ [][NextList]_vars

(***************************************************************************)
(* The scrape from extraction on: the summaries, the duplicate filter, the *)
(* detail visit of each record with the callback, the return.              *)
(***************************************************************************)
NextEnrich ==
    \/ ReadUrl
    \/ Goto
    \/ LoadWait
    \/ VerifyPage
    \/ NavCatch
    \/ WaitSelector
    \/ Settle
    \/ Evaluate
    \/ BackGoto
    \/ BackSettle
    \/ Finish
    \/ Recover
    \/ ReturnOriginal

Next ==
    \/ ExtractSummaries
    \/ Deduplicate
    \/ LoopHead
    \/ Details
    \/ Callback
    \/ Wait
    \/ VerifyList
    \/ RecordCatch
    \/ CatchCallback
    \/ LoopExit
    \/ FinallyReturn
    \/ OuterCatch
    \/ FinallyThrow
    \/ NextEnrich

\* SpecEnrich: a page of one card, of any kind.
InitEnrich ==
    /\ pc = "extract"
    /\ browser = "open"
    /\ error = "none"
    /\ \E card \in DetailCards : domElements = <<card>>
    /\ rendered = {Len(domElements)}
    /\ ScrollSettled(Len(domElements))
    /\ ListIdle
    /\ LoopIdle
    /\ onBusinessExtracted \in BOOLEAN
    /\ OnSearchView
    /\ EnrichIdle
    /\ ServerIdle

SpecEnrich == InitEnrich /\ [][Next]_vars

\* Spec: a page of up to MaxRecords cards.
Init ==
    /\ pc = "extract"
    /\ browser = "open"
    /\ error = "none"
    /\ domElements \in SeqsUpTo(LoopCards, MaxRecords)
    /\ rendered = {Len(domElements)}
    /\ ScrollSettled(Len(domElements))
    /\ ListIdle
    /\ LoopIdle
    /\ onBusinessExtracted \in BOOLEAN
    /\ OnSearchView
    /\ EnrichIdle
    /\ ServerIdle

Spec == Init /\ [][Next]_vars

\* SpecSession: the whole scrape, from the launch of the browser to the
\* return or the rejection, of a page of at most one card whose result list is
\* rendered in full from the start; on such a page the scroll loop ends by
\* stability and the cap (ScrollCap) is never reached.
InitSession ==
    /\ pc = "launch"
    /\ browser = "none"
    /\ error = "none"
    /\ identity = NONE
    /\ pageUrl = BlankUrl
    /\ document = NONE
    /\ ScrollInit
    /\ domElements \in {<< >>} \cup {<<card>> : card \in LoopCards}
    /\ rendered = {Len(domElements)}
    /\ ListIdle
    /\ LoopIdle
    /\ onBusinessExtracted \in BOOLEAN
    /\ EnrichIdle
    /\ ServerIdle

NextSession ==
    \/ Launch
    \/ NewPage
    \/ SetupFingerprintAvoidance
    \/ SetHeaders
    \/ Delay
    \/ GotoSearch
    \/ WaitResults
    \/ SettleSearch
    \/ ShowMore
    \/ ScrollCheck
    \/ ScrollNudge
    \/ ScrollFinish
    \/ Next

SpecSession == InitSession /\ [][NextSession]_vars

\* SpecServer: requests to GET /api/scrape handled one after another, with
\* MongoDB connected or not, the stores empty at the start.  Of a scrape it
\* keeps the records it hands to the callback and returns.
InitServer ==
    /\ pc = "launch"
    /\ browser = "none"
    /\ error = "none"
    /\ identity = NONE
    /\ pageUrl = BlankUrl
    /\ document = NONE
    /\ ScrollInit
    /\ domElements = << >>
    /\ rendered = {0}
    /\ ListIdle
    /\ LoopIdle
    /\ onBusinessExtracted = TRUE
    /\ EnrichIdle
    /\ readyState \in {0, 1}
    /\ StoreEmpty
    /\ HandlerIdle

NextServer ==
    \/ BadRequest
    \/ ScrapeRequest
    \/ OnBusinessExtracted
    \/ ScrapeResolved
    \/ ScrapeRejected

SpecServer == InitServer /\ [][NextServer]_vars

(***************************************************************************)
(* SpecStore: calls of saveSingleBusinessToDB and saveSingleBusinessToCSV  *)
(* made one after another, each business handed to both layers, MongoDB    *)
(* connected, both stores empty at the start.                              *)
(***************************************************************************)
MaxCalls == 2        \* at most this many businesses are saved

\* A summary with the given name, address and place link.
Summary(name, address, placeHref) ==
    [ExtractElement(DetailCard(name, NULL, NULL, placeHref), 0)[1] EXCEPT !.address = address]

\* The businesses to save: plain ones with and without a place id, two names
\* of one place id, and texts with a comma, with double quotes and with a
\* line break.
StoreBusinesses ==
    { Summary(<<"Acme">>, <<"12", " ", "Main", " ", "Street">>, PlaceAcme),
      Summary(<<"Acme">>, <<"12", " ", "Main", " ", "Street">>, NULL),
      Summary(<<"Bolt">>, <<"12", " ", "Main", " ", "Street">>, PlaceAcme),
      Summary(<<"Acme", Comma, " ", "Inc">>, <<"12", " ", "Main", " ", "Street">>, NULL),
      Summary(<<"Joe's", " ", Quote, "Best", Quote>>, <<"12", " ", "Main", " ", "Street">>, NULL),
      Summary(<<"Bolt">>, <<"12", " ", "Main", LineBreak, "Suite", " ", "2">>, NULL) }

\* One call of each layer with the same business, query and slug.
Save ==
    /\ saving.n < MaxCalls
    /\ \E b \in StoreBusinesses, q \in {<<"l">>, <<"d", " ", "l">>}, fault \in Faults :
         LET slug == createQuerySlug(q)
             db == saveSingleBusinessToDB(businesses, b, q, slug, fault)
             csv == saveSingleBusinessToCSV(csvFiles[slug], b, q, slug)
         IN  /\ saving' = [n |-> saving.n + 1, business |-> b, query |-> q,
                           querySlug |-> slug, fault |-> fault]
             /\ businesses' = db.docs
             /\ lastResult' = db.result
             /\ csvFiles' = [csvFiles EXCEPT ![slug] = csv.content]
             /\ csvResult' = csv.result
             /\ written' = IF csv.result.saved
                             THEN Append(written, [business |-> b, querySlug |-> slug])
                             ELSE written
    /\ UNCHANGED <<readyState, queries, csvQueries, spc, query, savedCount, duplicateCount,
                   errorCount, response, started, completed, calls, mainVars, scrollVars,
                   listVars, loopVars, enrichVars>>

InitStore ==
    /\ pc = "launch"
    /\ browser = "none"
    /\ error = "none"
    /\ identity = NONE
    /\ pageUrl = BlankUrl
    /\ document = NONE
    /\ ScrollInit
    /\ domElements = << >>
    /\ rendered = {0}
    /\ ListIdle
    /\ LoopIdle
    /\ onBusinessExtracted = FALSE
    /\ EnrichIdle
    /\ readyState = 1
    /\ StoreEmpty
    /\ HandlerIdle

SpecStore == InitStore /\ [][Save]_vars

(***************************************************************************)
(* SpecRace: two /api/scrape requests for the same query run at the same   *)
(* time; the callback of each hands its records, one after another, to     *)
(* saveSingleBusinessToDB, whose awaits (lines 29, 37 and 70) let the      *)
(* calls of the two requests interleave.                                   *)
(***************************************************************************)
RaceQuery == <<"d", " ", "l">>
RaceBusinesses ==
    { Summary(<<"Acme">>, NULL, PlaceAcme),
      Summary(<<"Bolt">>, NULL, PlaceAcme),
      Summary(<<"Acme">>, NULL, NULL) }

raceFrame ==
    <<readyState, queries, csvFiles, csvQueries, handlerVars, saving, csvResult, written,
      mainVars, scrollVars, listVars, loopVars, enrichVars>>

\* saveToDB.js:29-32 and 37-41: what each findOne finds.
FindByPlaceId(docs, b, slug) ==
    \E k \in 1..Len(docs) : docs[k].placeId = b.placeId /\ docs[k].querySlug = slug
FindByName(docs, b, slug) ==
    \E k \in 1..Len(docs) :
        docs[k].name = b.name /\ docs[k].querySlug = slug /\ docs[k].placeId = b.placeId

\* part_003:651-657: the callback of a request calls saveSingleBusinessToDB
\* for its next record; line 27 chooses the first lookup.
CallSave(p) ==
    /\ calls[p].at = "idle"
    /\ calls[p].n < MaxCalls
    /\ \E b \in RaceBusinesses :
         calls' = [calls EXCEPT ![p] = [at |-> IF Truthy(b.placeId) THEN "findByPlaceId"
                                                ELSE "findByName",
                                        business |-> b, n |-> @.n + 1, result |-> NONE]]
    /\ UNCHANGED <<businesses, raceFrame>>

\* saveToDB.js:29-36: the lookup by place id and slug answers.
FoundByPlaceId(p) ==
    /\ calls[p].at = "findByPlaceId"
    /\ calls' = [calls EXCEPT ![p] =
                   IF FindByPlaceId(businesses, @.business, createQuerySlug(RaceQuery))
                     THEN [@ EXCEPT !.at = "idle", !.result = Result(FALSE, TRUE, FALSE)]
                     ELSE [@ EXCEPT !.at = "findByName"]]
    /\ UNCHANGED <<businesses, raceFrame>>

\* saveToDB.js:37-48: the lookup by name, slug and place id answers.
FoundByName(p) ==
    /\ calls[p].at = "findByName"
    /\ calls' = [calls EXCEPT ![p] =
                   IF FindByName(businesses, @.business, createQuerySlug(RaceQuery))
                     THEN [@ EXCEPT !.at = "idle", !.result = Result(FALSE, TRUE, FALSE)]
                     ELSE [@ EXCEPT !.at = "save"]]
    /\ UNCHANGED <<businesses, raceFrame>>

\* saveToDB.js:51-72: the new document is stored; no index of the collection
\* is unique (part_000:84), so the save is not refused.
SaveDocument(p) ==
    /\ calls[p].at = "save"
    /\ businesses' = Append(businesses, NewBusiness(calls[p].business, RaceQuery,
                                                    createQuerySlug(RaceQuery)))
    /\ calls' = [calls EXCEPT ![p] = [@ EXCEPT !.at = "idle", !.result = Result(TRUE, FALSE, FALSE)]]
    /\ UNCHANGED raceFrame

NextRace == \E p \in Requests : CallSave(p) \/ FoundByPlaceId(p) \/ FoundByName(p) \/ SaveDocument(p)

SpecRace == InitStore /\ [][NextRace]_vars

(***************************************************************************)
(* SpecApi: one request to GET /api/scrape from the extraction of its      *)
(* scrape on: the loop of scrapeGoogleMaps with the callback of the        *)
(* request, lookups and saves of the document store rejected at will, and  *)
(* the response.                                                           *)
(***************************************************************************)
\* Lines 668-712: the list is returned to the handler, which responds.
Respond ==
    /\ pc = "returned"
    /\ ScrapeResolved

\* Lines 714-720: the rejection reaches the handler, which responds.
RespondError ==
    /\ pc = "rejected"
    /\ ScrapeRejected

InitApi ==
    /\ pc = "extract"
    /\ browser = "open"
    /\ error = "none"
    /\ domElements \in SeqsUpTo(LoopCards, MaxRecords)
    /\ rendered = {Len(domElements)}
    /\ ScrollSettled(Len(domElements))
    /\ ListIdle
    /\ LoopIdle
    /\ onBusinessExtracted = TRUE
    /\ OnSearchView
    /\ EnrichIdle
    /\ readyState \in {0, 1}
    /\ businesses = << >>
    /\ csvFiles = [s \in Slugs |-> << >>]
    /\ queries = IF readyState = 1
                   THEN TouchQueryRecord(<< >>, RaceQuery, createQuerySlug(RaceQuery))
                   ELSE << >>
    /\ csvQueries = IF readyState = 1
                      THEN << >>
                      ELSE updateQueryRecordCSV(<< >>, RaceQuery, createQuerySlug(RaceQuery))
    /\ spc = "scraping"
    /\ query = RaceQuery
    /\ savedCount = 0
    /\ duplicateCount = 0
    /\ errorCount = 0
    /\ lastResult = NONE
    /\ response = NONE
    /\ started = [s \in Slugs |-> IF s = createQuerySlug(RaceQuery) THEN 1 ELSE 0]
    /\ completed = [s \in Slugs |-> 0]
    /\ saving = NoCall
    /\ csvResult = NONE
    /\ written = << >>
    /\ calls = [p \in Requests |-> NoSave]

NextApi ==
    \/ Next
    \/ Respond
    \/ RespondError

SpecApi == InitApi /\ [][NextApi]_vars

\* SpecFair: the same scrape, which keeps running until it returns or rejects
\* (every await settles).
SpecFair == Init /\ [][Next]_vars /\ WF_vars(Next)

(***************************************************************************)
(* Properties.                                                             *)
(***************************************************************************)
\* The records of a list.
Records(list) == {list[k] : k \in 1..Len(list)}

\* The records extractBusinessDetails and scrapeGoogleMaps have returned so far.
Returned == Records(detailedResults) \cup (IF returned = NONE THEN {} ELSE {returned})

\* Every record on its way out: the summaries, the returned records and the
\* records handed to the callback.
Flowing == Records(results) \cup Records(uniqueResults) \cup Records(sunk) \cup Returned

\* C1: extractBusinessDetails never raises.  Whatever page operations fail
\* (url, goto, the waits, the evaluate, the return navigation, the recovery),
\* the call is never left by an exception, every step short of the return can
\* go on, and the record returned is the enriched record or the summary.
C1_NeverRaises ==
    /\ epc # "raised"
    /\ epc = "returned" => returned # NONE /\ returned \in {business, enhancedBusiness}
    /\ epc \notin {"idle", "returned"} => ENABLED NextEnrich

\* The recovery itself threw and the call still returned the summary.
C1_RecoveryFailedReturned ==
    /\ epc = "returned"
    /\ thrown = "recover"
    /\ returned = business

\* C2: for a summary whose placeUrl is null the call returns exactly the
\* summary: it never navigates, extracts nothing and builds no enriched record.
C2_NoPlaceUrlIdentity ==
    (epc \notin {"idle", "url"} /\ business.placeUrl = NULL) =>
        /\ ~navigatedAway
        /\ detailedInfo = NONE
        /\ enhancedBusiness = NONE
        /\ epc = "returned" => returned = business

\* A summary with a phone and no placeUrl came back as it went in.
C2_SummaryReturnedAsIs ==
    /\ epc = "returned"
    /\ business.placeUrl = NULL
    /\ business.phone # NULL
    /\ thrown = "none"
    /\ returned = business

\* C3: when the goto to placeUrl throws, the call returns a record equal to the
\* summary, field for field: nothing was extracted, no enriched record was
\* built, and the returned record has the summary's fields and no other.
C3_GotoFailureIdentity ==
    (epc = "returned" /\ thrown = "goto") =>
        /\ returned = business
        /\ DOMAIN returned = DOMAIN business
        /\ detailedInfo = NONE
        /\ enhancedBusiness = NONE

\* The goto threw, the page was left on the error page, the summary came back.
C3_GotoFailedOnErrorPage ==
    /\ epc = "returned"
    /\ thrown = "goto"
    /\ pageUrl = ErrorUrl
    /\ returned = business

C5_PhoneDigits ==
    \A r \in Returned : r.phone = NULL \/ ValidDigits(r.phone)

\* The element has a name source of its own: an inner name element, an
\* aria-label or a text content that is not blank.
HasNameSource(el) ==
    \/ Truthy(TrimOpt(el.nameText))
    \/ Truthy(TrimOpt(el.ariaLabel))
    \/ Truthy(TrimOpt(el.textContent))

\* C6: every record (in the list returned, handed to the callback, or on its
\* way there) has a non-empty name, and an element without a name source of
\* its own, whose name is the fallback "Business N", yields no record: there
\* are no more summaries than elements with a name source.
C6_NamedRecords ==
    /\ \A r \in Flowing : r.name # NULL /\ Len(r.name) > 0
    /\ LET els == BusinessElements(domElements)
       IN  Len(results) <= Cardinality({k \in 1..Len(els) : HasNameSource(els[k])})

\* A page of a nameless card and a named one returned one record, which the
\* callback received.
C6_NamelessCardDropped ==
    /\ pc = "returned"
    /\ Len(domElements) = 2
    /\ ~HasNameSource(domElements[1])
    /\ Len(detailedResults) = 1
    /\ Len(sunk) = 1

\* The records of a list whose name no earlier record of the list has.
RECURSIVE FirstOfEachName(_, _)
FirstOfEachName(list, k) ==
    IF k > Len(list) THEN << >>
    ELSE (IF \E j \in 1..(k - 1) : list[j].name = list[k].name THEN << >> ELSE <<list[k]>>)
         \o FirstOfEachName(list, k + 1)

\* C7: the list handed to the detail loop has no two records of the same
\* name (compared exactly), and it is the summaries in their order with every
\* record dropped whose name an earlier summary has.
C7_UniqueNames ==
    pc = "loopHead" =>
        /\ \A a, b \in 1..Len(uniqueResults) :
              a # b => uniqueResults[a].name # uniqueResults[b].name
        /\ uniqueResults = FirstOfEachName(results, 1)

\* Of "Acme", "acme", "Acme" the first two are kept, in that order.
C7_CaseKeptDuplicateDropped ==
    /\ pc = "loopHead"
    /\ Len(results) = 3
    /\ results[3].name = <<"Acme">>
    /\ Len(uniqueResults) = 2
    /\ uniqueResults[1] = results[1] /\ uniqueResults[1].name = <<"Acme">>
    /\ uniqueResults[2] = results[2] /\ uniqueResults[2].name = <<"acme">>

\* C8 as stated: once the first check and the second check both counted 5,
\* the loop ends after exactly 2 iterations.
C8_TwoChecksEnd ==
    (pc \in {"scrollDone", "extract"} /\ Len(observed) >= 2
        /\ observed[1] = 5 /\ observed[2] = 5) => scrollAttempts = 2

\* C8: when the first, second and third checks all counted 5, the loop has
\* ended at the third check, after exactly 2 completed iterations.
C8_ThreeChecksEnd ==
    observed = <<5, 5, 5>> =>
        /\ pc \notin {"scrollLoop", "scrollNudge"}
        /\ scrollAttempts = 2
        /\ noChangeCount = 2

\* After the checks 5, 5, 5 extraction starts.
C8_StableAtFive ==
    /\ observed = <<5, 5, 5>>
    /\ pc = "extract"
    /\ scrollAttempts = 2

\* C9: the loop runs at most maxScrollAttempts iterations, whatever the
\* counts: no iteration starts at the cap, where the loop is left without an
\* error; only a page operation that throws rejects the scrape.
C9_CapNotError ==
    /\ scrollAttempts <= maxScrollAttempts
    /\ pc = "scrollNudge" => scrollAttempts < maxScrollAttempts
    /\ (pc = "scrollLoop" /\ scrollAttempts = maxScrollAttempts) =>
            error = "none" /\ ENABLED ScrollCap /\ ~ENABLED ScrollCheck
    /\ pc \in {"scrollDone", "extract"} => error = "none"
    /\ pc \in {"catch", "finallyThrow", "rejected"} => error \in {"evaluate", "waitForTimeout"}

\* The count never settled, the loop ended at the cap and extraction starts.
C9_CapReached ==
    /\ pc = "extract"
    /\ scrollAttempts = maxScrollAttempts
    /\ noChangeCount < 2
    /\ error = "none"

\* C10: a raise of the callback never unwinds the per-record loop: the scrape
\* is never rejected with the callback's exception.
C10_CallbackAbsorbed ==
    ~(pc \in {"catch", "finallyThrow", "rejected"} /\ error = "onBusinessExtracted")

\* C11: a failure while a summary is processed (in the detail navigation, the
\* extraction, the return navigation or the wait after the visit) does not
\* stop the loop.  Once the loop has started the scrape returns, unless the
\* callback's own exception rejects it, and when it returns the loop has
\* called extractBusinessDetails for every unique summary and the list holds
\* a record of each.
C11_LaterSummariesProcessed ==
    /\ [](pc = "returned" =>
            /\ i = Len(uniqueResults)
            /\ \A j \in 1..Len(uniqueResults) :
                 \E k \in 1..Len(detailedResults) :
                    detailedResults[k].name = uniqueResults[j].name)
    /\ (pc = "loopHead" ~> (pc = "returned" \/ error = "onBusinessExtracted"))

\* The visit of the first summary failed (its record is the summary as it
\* was, though it has a place link), the wait after it threw (the summary
\* was appended once more), and the second summary has its record.
C11_FailedFirstSecondProcessed ==
    /\ pc = "returned"
    /\ Len(uniqueResults) = 2
    /\ uniqueResults[1].placeUrl # NULL
    /\ Len(detailedResults) = 3
    /\ detailedResults[1] = uniqueResults[1]
    /\ detailedResults[2] = uniqueResults[1]
    /\ detailedResults[3].name = uniqueResults[2].name

\* The scrape is on its way to the caller with an exception.
Rejecting == pc \in {"catch", "finallyThrow", "rejected"}

\* C12: when the launch of the browser or the navigation to the search URL
\* throws, the scrape rejects with that error: it never returns a list, has
\* no record and has called the callback for none.  No failure inside a
\* record's enrichment rejects the scrape: a rejection for any other reason
\* than the callback's own exception happens before the first record is
\* visited.
C12_FatalOnlyAtSessionLevel ==
    /\ error \in {"launch", "goto"} =>
          /\ Rejecting
          /\ results = << >> /\ detailedResults = << >> /\ sunk = << >>
    /\ pc = "rejected" => error # "none"
    /\ (Rejecting /\ error # "onBusinessExtracted") =>
          /\ i = 0 /\ detailedResults = << >> /\ sunk = << >>
          /\ epc = "idle" /\ thrown = "none"

\* The navigation to the search URL threw and the scrape rejected, the
\* browser closed.
C12_SearchNavigationRejected ==
    /\ pc = "rejected"
    /\ error = "goto"
    /\ browser = "closed"
    /\ detailedResults = << >>
    /\ sunk = << >>

\* C13: every document loaded during one scrape reports the same user agent,
\* the same screen dimensions and the same timezone offset as the document
\* before it.
C13_IdentityImmutable ==
    [][document # NONE =>
          /\ document'.userAgent = document.userAgent
          /\ document'.width = document.width
          /\ document'.height = document.height
          /\ document'.timezoneOffset = document.timezoneOffset]_vars

\* The call has returned from a successful detail visit: the extracting
\* evaluate gave its details and the enriched record came back.
VisitSucceeded ==
    /\ epc = "returned"
    /\ detailedInfo # NONE
    /\ returned = enhancedBusiness

\* C14: after a successful detail visit the returned phone is the detail
\* page's phone when the page yielded one, else the summary's phone, and null
\* only when both are absent.
C14_PhonePreference ==
    VisitSucceeded =>
        returned.phone = (IF Truthy(detailedInfo.phone) THEN detailedInfo.phone
                          ELSE IF Truthy(business.phone) THEN business.phone
                          ELSE NULL)

\* The summary has the phone "555-1111", the detail page yielded none, and
\* the returned phone is "555-1111".
C14_SummaryPhoneFallback ==
    /\ VisitSucceeded
    /\ detailedInfo.phone = NULL
    /\ business.phone = <<"5", "5", "5", "-", "1", "1", "1", "1">>
    /\ returned.phone = <<"5", "5", "5", "-", "1", "1", "1", "1">>

\* C15: after a successful detail visit the returned website is the detail
\* page's website when that is present and no Google Maps link, else the
\* summary's website when that is present and no Google Maps link, else null.
C15_WebsitePreference ==
    VisitSucceeded =>
        returned.website =
            (IF Truthy(detailedInfo.website) /\ ~IsMapsLink(detailedInfo.website)
               THEN detailedInfo.website
             ELSE IF Truthy(business.website) /\ ~IsMapsLink(business.website)
               THEN business.website
             ELSE NULL)

\* Summary and detail page gave different websites and the detail page's
\* came back.
C15_DetailWebsitePreferred ==
    /\ VisitSucceeded
    /\ business.website # NULL
    /\ detailedInfo.website # NULL
    /\ detailedInfo.website # business.website
    /\ returned.website = detailedInfo.website

\* C16: whatever the outcome of the detail visit, the returned record has
\* the summary's name, rating, reviewCount, placeId and placeUrl, and each of
\* phone, address and website (when no Google Maps link) that the summary
\* has is non-null in the returned record.
C16_SummaryDataKept ==
    epc = "returned" =>
        /\ returned.name = business.name
        /\ returned.rating = business.rating
        /\ returned.reviewCount = business.reviewCount
        /\ returned.placeId = business.placeId
        /\ returned.placeUrl = business.placeUrl
        /\ business.phone # NULL => returned.phone # NULL
        /\ business.address # NULL => returned.address # NULL
        /\ (business.website # NULL /\ ~IsMapsLink(business.website)) =>
              returned.website # NULL

\* The detail page showed no phone and no address, and the enriched record
\* has the summary's.
C16_SummaryFieldsSurvive ==
    /\ VisitSucceeded
    /\ detailedInfo.phone = NULL /\ detailedInfo.address = NULL
    /\ business.phone # NULL /\ business.address # NULL
    /\ returned.phone = business.phone
    /\ returned.address = business.address

\* C17: the record a successful detail visit returns carries
\* verifiedBusinessName, the name the detail page showed.
C17_VerifiedNameCarried ==
    VisitSucceeded =>
        /\ "verifiedBusinessName" \in DOMAIN returned
        /\ returned.verifiedBusinessName = detailedInfo.verifiedBusinessName

\* Whether the business matches a document on one of the two keys: the
\* place id and the slug when it has a place id, the name and the slug among
\* the documents without a place id when it has none.
MatchesOnKey(docs, b, slug) ==
    \E k \in 1..Len(docs) :
       /\ docs[k].querySlug = slug
       /\ \/ b.placeId # NULL /\ docs[k].placeId = b.placeId
          \/ b.placeId = NULL /\ docs[k].placeId = NULL /\ docs[k].name = b.name

\* C18: after any sequence of saveSingleBusinessToDB calls made one after
\* another, the store holds at most one record per place id and slug among
\* the records with a place id, and at most one per name and slug among the
\* records without one; and a call whose business matches a stored record
\* on one of these keys returns duplicate: true and stores nothing.
C18_OneRecordPerKey ==
    /\ [](\A j, k \in 1..Len(businesses) :
             (j # k /\ businesses[j].querySlug = businesses[k].querySlug) =>
                /\ businesses[j].placeId # NULL =>
                      businesses[j].placeId # businesses[k].placeId
                /\ (businesses[j].placeId = NULL /\ businesses[k].placeId = NULL) =>
                      businesses[j].name # businesses[k].name)
    /\ [][(Len(sunk') = Len(sunk) + 1
             /\ MatchesOnKey(businesses, sunk'[Len(sunk')], querySlug)) =>
                /\ lastResult'.duplicate
                /\ ~lastResult'.saved
                /\ businesses' = businesses]_vars

\* Two records of one scrape share a place id: the first was stored, the
\* second was answered as a duplicate and not stored.
C18_DuplicateSkipped ==
    /\ readyState = 1
    /\ Len(sunk) = 2
    /\ Len(businesses) = 1
    /\ businesses[1].placeId = sunk[1].placeId
    /\ sunk[2].placeId = sunk[1].placeId
    /\ sunk[2].placeId # NULL
    /\ sunk[2].name # sunk[1].name
    /\ lastResult = Result(FALSE, TRUE, FALSE)

\* C19: while MongoDB is not connected, every record a completed
\* /api/scrape request returned is a row of the CSV file of the query's
\* slug once the request is answered.
C19_ReturnedRecordsInCSV ==
    (readyState # 1 /\ spc = "idle" /\ response # NONE /\ response.status = 200) =>
        \A k \in 1..Len(response.results) :
           \E n \in 1..Len(readBusinessesFromCSV(createQuerySlug(response.query))) :
              readBusinessesFromCSV(createQuerySlug(response.query))[n].name
                 = response.results[k].name

\* C20: between requests, the scrapedCount of the query record of a slug,
\* in the storage in use, is the number of scrapes made for the slug.
C20_ScrapedCountIsScrapes ==
    spc = "idle" =>
        \A s \in Slugs : ScrapedCount(QueryRecords, s) = started[s]

C22_OneRecordAtATime ==
    /\ [](epc # "idle" => pc = "details")
    /\ [](pc \in {"extract", "dedup"} =>
             (epc = "idle" /\ i = 0 /\ detailedResults = << >> /\ sunk = << >>))
    /\ [][(epc = "idle" /\ epc' # "idle") =>
             /\ pc = "loopHead"
             /\ uniqueResults = UniqueByName(results)
             /\ i < Len(uniqueResults)
             /\ business' = uniqueResults[i + 1]
             /\ Len(detailedResults) >= i
             /\ \A j \in 1..i :
                  /\ \E k \in 1..Len(detailedResults) :
                        detailedResults[k].name = uniqueResults[j].name
                  /\ onBusinessExtracted =>
                        \E k \in 1..Len(sunk) : sunk[k].name = uniqueResults[j].name
             /\ \A k \in 1..Len(detailedResults) :
                  \E j \in 1..i : detailedResults[k].name = uniqueResults[j].name]_vars

\* The visit of the second summary has started: the first has its record
\* and was handed to the callback.
C22_SecondVisitStarted ==
    /\ pc = "details"
    /\ epc = "url"
    /\ i = 1
    /\ business = uniqueResults[2]
    /\ onBusinessExtracted
    /\ Len(detailedResults) = 1
    /\ Len(sunk) = 1
    /\ sunk[1] = detailedResults[1]

\* C27: when scrapeGoogleMaps returns, the list holds exactly one record per
\* unique summary, in the order of the summaries.
C27_OneRecordPerSummary ==
    pc = "returned" =>
        /\ Len(detailedResults) = Len(uniqueResults)
        /\ \A j \in 1..Len(uniqueResults) : detailedResults[j].name = uniqueResults[j].name

\* C29: at the start of every detail visit the page is on the search-results
\* view: the location recorded for the way back is the search URL.
C29_VisitsStartOnSearchView ==
    /\ currentUrl # NULL => currentUrl = SearchUrl
    /\ (pc = "details" /\ epc = "url") => pageUrl = SearchUrl

\* C30: once the browser has been launched, every way the scrape finishes
\* closes it before the caller has the result: with the list or with an
\* exception, the browser is not open, and it is closed whenever the launch
\* succeeded.
C30_BrowserClosedAtEnd ==
    /\ pc \in {"returned", "rejected"} => browser # "open"
    /\ (pc \in {"returned", "rejected"} /\ error # "launch") => browser = "closed"
    /\ browser = "none" => pc \in {"launch", "catch", "finallyThrow", "rejected"}

\* The callback's exception has rejected the scrape after a record was
\* appended, and the browser is closed.
C30_ClosedAfterLateRejection ==
    /\ pc = "rejected"
    /\ error = "onBusinessExtracted"
    /\ Len(detailedResults) = 2
    /\ browser = "closed"

\* The businesses of the slug in each layer, by the fields the lookups read.
Key(b) == [name |-> b.name, placeId |-> b.placeId, querySlug |-> b.querySlug]
KeysOf(rows) == {Key(rows[k]) : k \in 1..Len(rows)}
SameRecords(slug) ==
    KeysOf(SelectSeq(businesses, LAMBDA d : d.querySlug = slug)) = KeysOf(readBusinessesFromCSV(slug))

\* C21: the CSV layer and the document-store layer make the same duplicate
\* decision: when both hold the same records of the slug and no operation of
\* the document store is rejected, saveSingleBusinessToCSV reports a
\* duplicate for a business exactly when saveSingleBusinessToDB does.
C21_SameDuplicateDecision ==
    [][(saving'.n # saving.n /\ saving'.fault = "none" /\ SameRecords(saving'.querySlug))
          => (csvResult'.duplicate <=> lastResult'.duplicate)]_vars

\* Both layers hold 'Acme' with its place id and both report 'Bolt' of the
\* same place id a duplicate.
C21_BothReportDuplicate ==
    /\ saving.n = 2
    /\ saving.fault = "none"
    /\ saving.business.name = <<"Bolt">>
    /\ saving.business.placeId # NULL
    /\ Len(businesses) = 1
    /\ businesses[1].name = <<"Acme">>
    /\ KeysOf(businesses) = KeysOf(readBusinessesFromCSV(saving.querySlug))
    /\ csvResult.duplicate
    /\ lastResult.duplicate

\* The fields of a business that the file is to give back.
RoundTripFields ==
    {"name", "address", "phone", "website", "placeId", "hours", "category", "description"}

\* C25: for every business saveSingleBusinessToCSV has written,
\* readBusinessesFromCSV of the same slug returns a row whose name, address,
\* phone, website, placeId, hours, category and description are the values
\* written, also for values with commas, double quotes or line breaks, and
\* saving the business again is detected as a duplicate.
C25_CSVRoundTrips ==
    \A n \in 1..Len(written) :
        LET w == written[n]
            rows == readBusinessesFromCSV(w.querySlug)
        IN  /\ \E k \in 1..Len(rows) :
                   \A f \in RoundTripFields : rows[k][f] = Field(w.business, f)
            /\ ExistingBusinessCSV(rows, w.business, w.querySlug)

\* The three outcomes of saveSingleBusinessToDB.
Outcomes == {Result(TRUE, FALSE, FALSE), Result(FALSE, TRUE, FALSE), Result(FALSE, FALSE, TRUE)}

\* C26: saveSingleBusinessToDB never raises and reports exactly one of the
\* outcomes saved, duplicate and error, duplicate also for the duplicate-key
\* error of code 11000; the stored businesses change, by the one new
\* document, only on the outcome saved.
C26_OneOutcomePerCall ==
    [][saving'.n # saving.n =>
          /\ lastResult' \in Outcomes
          /\ saving'.fault = "E11000" => lastResult'.duplicate
          /\ lastResult'.saved =>
                businesses' = Append(businesses, NewBusiness(saving'.business, saving'.query,
                                                             saving'.querySlug))
          /\ ~lastResult'.saved => businesses' = businesses]_vars

\* A first business is saved, the save of a second one is rejected, and the
\* store holds the first one alone.
C26_ErrorLeavesStore ==
    /\ saving.n = 2
    /\ saving.fault = "save"
    /\ lastResult = Result(FALSE, FALSE, TRUE)
    /\ Len(businesses) = 1
    /\ businesses[1].name # saving.business.name

\* C24: under every interleaving of the calls of saveSingleBusinessToDB of
\* two requests that run at the same time for the same query, the store
\* never holds two records of the same place id, not null, and the same slug.
C24_NoTwoRecordsOfOnePlace ==
    \A j, k \in 1..Len(businesses) :
        (j < k /\ businesses[j].placeId # NULL /\ businesses[j].placeId = businesses[k].placeId)
            => businesses[j].querySlug # businesses[k].querySlug

\* C28: when a request to /api/scrape is answered with success, the callback
\* was called once for every record of the returned list, in the order of the
\* list, every call was counted in exactly one of the three counters, and
\* saved + duplicates + errors is the number of records returned.
C28_EveryRecordCountedOnce ==
    /\ [](spc = "scraping" => savedCount + duplicateCount + errorCount = Len(sunk))
    /\ [](pc \in {"loopHead", "finallyReturn", "returned"} => sunk = detailedResults)
    /\ []((response # NONE /\ response.status = 200) =>
            /\ response.results = sunk
            /\ response.saved + response.duplicates + response.errors = Len(response.results))
    /\ [][/\ (savedCount' + duplicateCount' + errorCount')
                 - (savedCount + duplicateCount + errorCount) = Len(sunk') - Len(sunk)
            /\ savedCount' >= savedCount
            /\ duplicateCount' >= duplicateCount
            /\ errorCount' >= errorCount]_vars

\* The response of a scrape whose wait failed after the first record was
\* saved: the record and its summary are returned, one counted as saved and
\* one as a duplicate.
C28_RecordAndSummaryCounted ==
    /\ response # NONE
    /\ response.status = 200
    /\ Len(response.results) = 2
    /\ response.results[1].name = response.results[2].name
    /\ response.saved = 1
    /\ response.duplicates = 1
    /\ response.errors = 0

=============================================================================
